---------------------------- MODULE Spec2Model ----------------------------
(***************************************************************************)
(* Model of the node-dev-mcp-server command layer: the command runner,     *)
(* the git client, the commit-and-push orchestrator, the start_work tool   *)
(* and the apply_patch tool.  One tool invocation runs at a time; every    *)
(* action is one awaited step of a handler together with the synchronous   *)
(* code that follows it up to the next await.                              *)
(*                                                                         *)
(* Text is a sequence of lines, a line is a sequence of tokens (words,     *)
(* separators such as "/" and " ").  A path or a command-line argument is  *)
(* one line.                                                               *)
(***************************************************************************)
EXTENDS Integers, Sequences, FiniteSets, TLC

VARIABLES
    tool,        \* the tool handler (or exported function) being run
    pc,          \* position of the handler: the await it is suspended at
    input,       \* the arguments of the invocation
    calls,       \* subprocesses launched by this invocation, in order
    res,         \* CommandResults the handler holds, by local variable
    outcome,     \* the CommitOutcome of commitAndPushAsync, if it returned
    response,    \* the ToolResponse of the handler, if it returned
    thrown,      \* the error the invocation rejected with, if it did
    tempDir,     \* the scratch directory of apply_patch
    invocations, \* number of invocations started
    worktree,    \* changes this invocation made to the files of the workspace
    returned,    \* the value or error of a utility function called on its own
    repository   \* what git keeps between invocations: commits not yet
                 \* pushed, and the branches that exist

vars == <<tool, pc, input, calls, res, outcome, response, thrown, tempDir,
          invocations, worktree, returned, repository>>

(***************************************************************************)
(* Bounds                                                                  *)
(***************************************************************************)
MaxInvocations == 2

\* bounds of the inputs the utility functions are called with on their own
MaxPatchLines == 2

MaxSegments == 4

\* the longest stream, in lines, that the formatter is called on, beside
\* the streams around the default limit
MaxStreamLines == 4

(***************************************************************************)
(* Generic helpers                                                         *)
(***************************************************************************)
Range(s) == {s[i] : i \in 1..Len(s)}

IsPrefix(p, s) == Len(p) <= Len(s) /\ SubSeq(s, 1, Len(p)) = p

IsInfix(p, s) == \E i \in 0..(Len(s) - Len(p)) : SubSeq(s, i + 1, i + Len(p)) = p

Arg(s) == <<s>>

(***************************************************************************)
(* Texts a subprocess may print.                                           *)
(***************************************************************************)
NoText == <<>>

OkText == << <<"ok">>, <<>> >>

CleanTreeText == << <<"On", "branch", "main">>,
                    <<"nothing", "to", "commit", ",", "working", "tree", "clean">> >>

UpperCleanText == << <<"Nothing", "To", "Commit">> >>

NotAddedText == << <<"no", "changes", "added", "to", "commit">> >>

SplitHeadText == << <<"nothing", "to">> >>

SplitTailText == << <<"commit">> >>

FatalText == << <<"fatal", ":", "unable", "to", "commit">> >>

WarnText == << <<"warning">> >>

ExitCodes == {0, 1, 128}

LaunchErrors == {"ENOENT"}

\* the child was started but a signal ended it: execFile's error then carries
\* the signal, and a code that is not a number
KillSignals == {"SIGTERM"}

(***************************************************************************)
(* What the operating system reports to execFile's callback: no error, an  *)
(* error whose code is the numeric exit status, or an error whose code is  *)
(* not a number (the program could not be started, or a signal ended it).  *)
(***************************************************************************)
StdoutTexts(full, step) ==
    CASE step = "commit" /\ full -> {NoText, CleanTreeText, UpperCleanText, SplitHeadText}
      [] step = "commit" /\ ~full -> {NoText, CleanTreeText}
      [] OTHER -> {NoText, OkText}

StderrTexts(full, step) ==
    CASE step = "commit" /\ full ->
            {NoText, CleanTreeText, NotAddedText, SplitTailText, FatalText}
      [] step = "commit" /\ ~full -> {NoText, FatalText}
      [] step \in {"stage", "push"} /\ full -> {NoText, WarnText}
      [] step \in {"create-branch", "push-branch"} -> {NoText, WarnText}
      [] OTHER -> {NoText}

\* full: the orchestrator is exercised on its own, with the larger text sets
ProcessExits(full, step) ==
    [error : {"none"}, code : {0},
     stdout : StdoutTexts(full, step), stderr : StderrTexts(full, step)]
    \cup
    [error : {"exit"}, code : ExitCodes \ {0},
     stdout : StdoutTexts(full, step), stderr : StderrTexts(full, step)]
    \cup
    [error : LaunchErrors \cup KillSignals, code : {0},
     stdout : {NoText}, stderr : {NoText}]

\* a variant that resolves with exit status 1 whenever execFile's error has
\* no numeric code
runCommandAsyncNeverRejects(proc) ==
    IF proc.error \in {"none", "exit"}
    THEN [kind |-> "result",
          result |-> [stdout |-> proc.stdout, stderr |-> proc.stderr,
                      exitCode |-> proc.code]]
    ELSE [kind |-> "result",
          result |-> [stdout |-> proc.stdout, stderr |-> proc.stderr, exitCode |-> 1]]

\* a variant that rejects on every execFile error, a non-zero exit included
runCommandAsyncRejectsNonZero(proc) ==
    IF proc.error = "none"
    THEN [kind |-> "result",
          result |-> [stdout |-> proc.stdout, stderr |-> proc.stderr, exitCode |-> 0]]
    ELSE [kind |-> "error", message |-> proc.error]

runCommandAsync(proc) ==
    IF proc.error = "none"
    THEN [kind |-> "result",
          result |-> [stdout |-> proc.stdout, stderr |-> proc.stderr, exitCode |-> 0]]
    ELSE IF proc.error = "exit"
         THEN [kind |-> "result",
               result |-> [stdout |-> proc.stdout, stderr |-> proc.stderr,
                           exitCode |-> proc.code]]
         ELSE [kind |-> "error", message |-> proc.error]

(***************************************************************************)
(* Output formatter (utils/commandOutput): one labelled block per stream   *)
(* that is not empty after trimming; at most maxLines trailing lines kept. *)
(***************************************************************************)
DefaultMaxLines == 300

RECURSIVE TrimEnd(_)
TrimEnd(text) ==
    IF text = <<>> THEN <<>>
    ELSE IF text[Len(text)] = <<>> THEN TrimEnd(SubSeq(text, 1, Len(text) - 1))
    ELSE text

formatStreamKeepsHead(label, text, maxLines) ==
    LET t == TrimEnd(text) IN
    IF t = <<>> THEN <<>>
    ELSE IF Len(t) > maxLines
         THEN << [label |-> label, trimmed |-> Len(t) - maxLines,
                  lines |-> SubSeq(t, 1, maxLines)] >>
         ELSE << [label |-> label, trimmed |-> 0, lines |-> t] >>

formatStream(label, text, maxLines) ==
    LET t == TrimEnd(text) IN
    IF t = <<>> THEN <<>>
    ELSE IF Len(t) > maxLines
         THEN << [label |-> label, trimmed |-> Len(t) - maxLines,
                  lines |-> SubSeq(t, Len(t) - maxLines + 1, Len(t))] >>
         ELSE << [label |-> label, trimmed |-> 0, lines |-> t] >>

formatCommandOutput(result) ==
    formatStream("stdout", result.stdout, DefaultMaxLines)
    \o formatStream("stderr", result.stderr, DefaultMaxLines)

formatCommandFailure(result) ==
    [kind |-> "failure", exitCode |-> result.exitCode,
     output |-> formatCommandOutput(result)]

(***************************************************************************)
(* utils/toolResponses                                                     *)
(***************************************************************************)
textResponse(text) == [isError |-> FALSE, text |-> text]

errorResponse(text) == [isError |-> TRUE, text |-> text]

Lit(s) == [kind |-> "text", value |-> s]

Output(blocks) == [kind |-> "output", blocks |-> blocks]

(***************************************************************************)
(* utils/gitClient                                                         *)
(***************************************************************************)
\* a launched subprocess: the logical step, the command line, what the process did
Call(step, argv, proc) == [step |-> step, argv |-> argv, exit |-> proc]

runGitAsync(args) == <<Arg("git")>> \o args

addAsync(files) == runGitAsync(<<Arg("add")>> \o files)

commitAsync(message) == runGitAsync(<<Arg("commit"), Arg("-m"), Arg(message)>>)

pushAsync == runGitAsync(<<Arg("push"), Arg("origin")>>)

pullAsync == runGitAsync(<<Arg("pull")>>)

\* repo.replace(/^https?:\/\//, "")
StripScheme(repo) ==
    IF repo # <<>> /\ repo[1] \in {"https://", "http://"} THEN Tail(repo) ELSE repo

\* .replace(/^[^@]+@/, ""): a non-empty run without "@", then "@"
StripCredentials(repo) ==
    LET ats == {k \in 2..Len(repo) :
                    repo[k] = "@" /\ \A j \in 1..(k - 1) : repo[j] # "@"}
    IN  IF ats = {} THEN repo
        ELSE SubSeq(repo, (CHOOSE k \in ats : TRUE) + 1, Len(repo))

\* .replace(/\/+$/, "")
RECURSIVE StripTrailingSlashes(_)
StripTrailingSlashes(repo) ==
    IF repo # <<>> /\ repo[Len(repo)] = "/"
    THEN StripTrailingSlashes(SubSeq(repo, 1, Len(repo) - 1))
    ELSE repo

envMissing(env) == env.PROJECT_REPO = <<>> \/ env.GITHUB_TOKEN = <<>>

setRemoteUrlFromEnvAsync(env) ==
    LET repoWithoutScheme ==
            StripTrailingSlashes(StripCredentials(StripScheme(env.PROJECT_REPO)))
        url == <<"https://">> \o env.GITHUB_TOKEN \o <<"@">> \o repoWithoutScheme
    IN  runGitAsync(<<Arg("remote"), Arg("set-url"), Arg("origin"), url>>)

createArgs(branch, startPoint) ==
    <<Arg("checkout"), Arg("-b"), branch>>
    \o (IF startPoint # <<>> THEN <<startPoint>> ELSE <<>>)

pushBranchArgs(branch) == <<Arg("push"), Arg("-u"), Arg("origin"), branch>>

\* `${a}${b}`: the last line of a continues with the first line of b
Concat(a, b) ==
    IF a = <<>> THEN b
    ELSE IF b = <<>> THEN a
    ELSE SubSeq(a, 1, Len(a) - 1) \o <<a[Len(a)] \o b[1]>> \o Tail(b)

\* a variant that takes a failed checkout for a branch that is there already
afterCreateAcceptsFailure(createResult) ==
    IF createResult.exitCode # 0
    THEN [ret |-> TRUE, result |-> [createResult EXCEPT !.exitCode = 0]]
    ELSE [ret |-> FALSE, next |-> "sw_pushbranch"]

\* a variant that pushes the branch whatever the checkout did
afterCreateAlwaysPushes(createResult) == [ret |-> FALSE, next |-> "sw_pushbranch"]

\* createAndPushBranchAsync after the checkout
afterCreate(createResult) ==
    IF createResult.exitCode # 0
    THEN [ret |-> TRUE, result |-> createResult]
    ELSE [ret |-> FALSE, next |-> "sw_pushbranch"]

\* a variant that merges the outputs whatever the push did
afterPushBranchAlwaysMerges(createResult, pushResult) ==
    [stdout |-> Concat(createResult.stdout, pushResult.stdout),
     stderr |-> Concat(createResult.stderr, pushResult.stderr),
     exitCode |-> pushResult.exitCode]

\* createAndPushBranchAsync after the upstream push
afterPushBranch(createResult, pushResult) ==
    IF pushResult.exitCode # 0
    THEN pushResult
    ELSE [stdout |-> Concat(createResult.stdout, pushResult.stdout),
          stderr |-> Concat(createResult.stderr, pushResult.stderr),
          exitCode |-> 0]

(***************************************************************************)
(* utils/npmClient                                                         *)
(***************************************************************************)
ValidDirectories == {<<".">>, <<"app">>}

resolveWorkingDirectory(cwd) ==
    IF cwd \in ValidDirectories
    THEN [ok |-> TRUE, cwd |-> cwd]
    ELSE [ok |-> FALSE, message |-> "Invalid currentWorkingDirectory"]

installAllAsync(options) ==
    <<Arg("npm"), Arg("install"), Arg("--include=dev")>>
    \o (IF options.legacyPeerDeps THEN <<Arg("--legacy-peer-deps")>> ELSE <<>>)

(***************************************************************************)
(* utils/gitCommit                                                         *)
(***************************************************************************)
Lower(w) ==
    CASE w = "Nothing" -> "nothing"
      [] w = "To" -> "to"
      [] w = "Commit" -> "commit"
      [] OTHER -> w

LowerLine(line) == [i \in 1..Len(line) |-> Lower(line[i])]

NothingToCommit == <<"nothing", "to", "commit">>

NoChangesAdded == <<"no", "changes", "added", "to", "commit">>

\* a regular expression without newline matches inside one line
MatchesSignature(text) ==
    \E i \in 1..Len(text) :
        \/ IsInfix(NothingToCommit, LowerLine(text[i]))
        \/ IsInfix(NoChangesAdded, LowerLine(text[i]))

\* a variant that only looks at standard error
isNoChangesCommitStderrOnly(result) == MatchesSignature(result.stderr)

\* `${result.stdout}\n${result.stderr}`: the newline keeps the streams on separate lines
isNoChangesCommit(result) ==
    LET combined == result.stdout \o result.stderr
    IN  MatchesSignature(combined)

RECURSIVE FilterNonEmpty(_)
FilterNonEmpty(seq) ==
    IF seq = <<>> THEN <<>>
    ELSE IF Head(seq) = <<>> THEN FilterNonEmpty(Tail(seq))
    ELSE <<Head(seq)>> \o FilterNonEmpty(Tail(seq))

formatOutputs(results) ==
    FilterNonEmpty([i \in 1..Len(results) |-> formatCommandOutput(results[i])])

\* a variant that stages everything whenever called
addArgsAlwaysAll(paths) == <<Arg("-A")>>

addArgs(paths) ==
    IF paths.given /\ Len(paths.list) > 0 THEN paths.list ELSE <<Arg("-A")>>

\* a variant that goes on to commit after a failed staging
afterAddIgnoresExit(addResult) == [ret |-> FALSE, next |-> "cp_commit"]

\* a variant that stages again after a failed staging
afterAddRetries(addResult) ==
    IF addResult.exitCode # 0
    THEN [ret |-> FALSE, next |-> "cp_stage"]
    ELSE [ret |-> FALSE, next |-> "cp_commit"]

\* gitCommit.ts 35-37: what follows the staging step
afterAdd(addResult) ==
    IF addResult.exitCode # 0
    THEN [ret |-> TRUE, outcome |-> [ok |-> FALSE, step |-> "stage", result |-> addResult]]
    ELSE [ret |-> FALSE, next |-> "cp_commit"]

\* a variant that reports every failed commit as a no-op
afterCommitAlwaysNoOp(addResult, commitResult) ==
    IF commitResult.exitCode # 0
    THEN [ret |-> TRUE,
          outcome |-> [ok |-> TRUE,
                       outputs |-> formatOutputs(<<addResult, commitResult>>),
                       skipped |-> TRUE,
                       skipReason |-> "No changes to commit."]]
    ELSE [ret |-> FALSE, next |-> "cp_push"]

\* a variant that looks for the clean-tree text before the exit status
afterCommitSignatureFirst(addResult, commitResult) ==
    IF isNoChangesCommit(commitResult)
    THEN [ret |-> TRUE,
          outcome |-> [ok |-> TRUE,
                       outputs |-> formatOutputs(<<addResult, commitResult>>),
                       skipped |-> TRUE,
                       skipReason |-> "No changes to commit."]]
    ELSE IF commitResult.exitCode # 0
         THEN [ret |-> TRUE,
               outcome |-> [ok |-> FALSE, step |-> "commit", result |-> commitResult]]
         ELSE [ret |-> FALSE, next |-> "cp_push"]

\* a variant that pushes after a commit that found nothing to commit
afterCommitPushesOnNoOp(addResult, commitResult) ==
    IF commitResult.exitCode # 0 /\ ~isNoChangesCommit(commitResult)
    THEN [ret |-> TRUE,
          outcome |-> [ok |-> FALSE, step |-> "commit", result |-> commitResult]]
    ELSE [ret |-> FALSE, next |-> "cp_push"]

\* a variant that reports a failed commit with the staging step's result
afterCommitStageResult(addResult, commitResult) ==
    IF commitResult.exitCode # 0
    THEN IF isNoChangesCommit(commitResult)
         THEN [ret |-> TRUE,
               outcome |-> [ok |-> TRUE,
                            outputs |-> formatOutputs(<<addResult, commitResult>>),
                            skipped |-> TRUE,
                            skipReason |-> "No changes to commit."]]
         ELSE [ret |-> TRUE,
               outcome |-> [ok |-> FALSE, step |-> "commit", result |-> addResult]]
    ELSE [ret |-> FALSE, next |-> "cp_push"]

\* gitCommit.ts 40-50: what follows the commit step
afterCommit(addResult, commitResult) ==
    IF commitResult.exitCode # 0
    THEN IF isNoChangesCommit(commitResult)
         THEN [ret |-> TRUE,
               outcome |-> [ok |-> TRUE,
                            outputs |-> formatOutputs(<<addResult, commitResult>>),
                            skipped |-> TRUE,
                            skipReason |-> "No changes to commit."]]
         ELSE [ret |-> TRUE,
               outcome |-> [ok |-> FALSE, step |-> "commit", result |-> commitResult]]
    ELSE [ret |-> FALSE, next |-> "cp_push"]

\* a variant that reports a failed push with the commit's result
afterPushWrongResult(addResult, commitResult, pushResult) ==
    IF pushResult.exitCode # 0
    THEN [ret |-> TRUE,
          outcome |-> [ok |-> FALSE, step |-> "push", result |-> commitResult]]
    ELSE [ret |-> TRUE,
          outcome |-> [ok |-> TRUE,
                       outputs |-> formatOutputs(<<addResult, commitResult, pushResult>>),
                       skipped |-> FALSE]]

\* a variant that collects the outputs in the wrong order
afterPushReordered(addResult, commitResult, pushResult) ==
    IF pushResult.exitCode # 0
    THEN [ret |-> TRUE,
          outcome |-> [ok |-> FALSE, step |-> "push", result |-> pushResult]]
    ELSE [ret |-> TRUE,
          outcome |-> [ok |-> TRUE,
                       outputs |-> formatOutputs(<<commitResult, addResult, pushResult>>),
                       skipped |-> FALSE]]

\* gitCommit.ts 53-61: what follows the push step
afterPush(addResult, commitResult, pushResult) ==
    IF pushResult.exitCode # 0
    THEN [ret |-> TRUE,
          outcome |-> [ok |-> FALSE, step |-> "push", result |-> pushResult]]
    ELSE [ret |-> TRUE,
          outcome |-> [ok |-> TRUE,
                       outputs |-> formatOutputs(<<addResult, commitResult, pushResult>>),
                       skipped |-> FALSE]]

CommitOutput(o) == [i \in 1..Len(o.outputs) |-> Output(o.outputs[i])]

CommitNote(o) == IF o.skipped THEN <<Lit(o.skipReason)>> ELSE <<>>

(***************************************************************************)
(* utils/workspaceManager: paths are token sequences, "/" separates the    *)
(* segments, "." and ".." are tokens of their own.                         *)
(***************************************************************************)
Sep == "/"

WorkspaceRoot == <<Sep, "workspace">>

RECURSIVE SplitOn(_, _)
SplitOn(seps, p) ==
    IF \A i \in 1..Len(p) : p[i] \notin seps THEN <<p>>
    ELSE LET i == CHOOSE k \in 1..Len(p) :
                      p[k] \in seps /\ \A j \in 1..(k - 1) : p[j] \notin seps
         IN  <<SubSeq(p, 1, i - 1)>> \o SplitOn(seps, SubSeq(p, i + 1, Len(p)))

RECURSIVE NormalizeSegments(_, _)
NormalizeSegments(segs, acc) ==
    IF segs = <<>> THEN acc
    ELSE LET seg == Head(segs) IN
         IF seg = <<>> \/ seg = <<".">> THEN NormalizeSegments(Tail(segs), acc)
         ELSE IF seg = <<"..">>
              THEN NormalizeSegments(Tail(segs),
                        IF acc = <<>> THEN acc ELSE SubSeq(acc, 1, Len(acc) - 1))
              ELSE NormalizeSegments(Tail(segs), Append(acc, seg))

RECURSIVE JoinSegments(_)
JoinSegments(segs) ==
    IF segs = <<>> THEN <<>>
    ELSE <<Sep>> \o Head(segs) \o JoinSegments(Tail(segs))

NormalizeAbsolute(p) ==
    LET segs == NormalizeSegments(SplitOn({Sep}, p), <<>>)
    IN  IF segs = <<>> THEN <<Sep>> ELSE JoinSegments(segs)

\* a variant that joins the two paths and leaves "." and ".." in place
pathResolveUnnormalized(from, to) ==
    IF to # <<>> /\ to[1] = Sep THEN to ELSE from \o <<Sep>> \o to

\* path.resolve(from, to)
pathResolve(from, to) ==
    IF to # <<>> /\ to[1] = Sep
    THEN NormalizeAbsolute(to)
    ELSE NormalizeAbsolute(from \o <<Sep>> \o to)

resolvePath(fileName) ==
    LET workspaceDir == WorkspaceRoot
        resolvedWorkspaceDir == pathResolve(workspaceDir, <<>>)
        resolvedPath == pathResolve(workspaceDir, fileName)
    IN  IF ~IsPrefix(resolvedWorkspaceDir \o <<Sep>>, resolvedPath)
        THEN [ok |-> FALSE, message |-> "Invalid file name."]
        ELSE [ok |-> TRUE, path |-> resolvedPath]

(***************************************************************************)
(* tools/fileTools: patch paths                                            *)
(***************************************************************************)
Whitespace == {" ", "\t"}

DevNull == <<Sep, "dev", Sep, "null">>

NoPath == <<>>

\* a variant that keeps the a/ or b/ prefix
normalizePatchPathKeepsPrefix(rawPath) ==
    IF rawPath = <<>> \/ rawPath = DevNull THEN NoPath ELSE rawPath

normalizePatchPath(rawPath) ==
    LET trimmed == rawPath IN
    IF trimmed = <<>> \/ trimmed = DevNull THEN NoPath
    ELSE IF Len(trimmed) >= 2 /\ trimmed[1] \in {"a", "b"} /\ trimmed[2] = Sep
         THEN SubSeq(trimmed, 3, Len(trimmed))
         ELSE trimmed

IsHeaderLine(line) ==
    Len(line) >= 2 /\ line[1] \in {"---", "+++"} /\ line[2] = " "

RECURSIVE extractFrom(_, _)
extractFrom(lines, paths) ==
    IF lines = <<>> THEN paths
    ELSE LET line == Head(lines).text
             rawPath == SplitOn(Whitespace, SubSeq(line, 3, Len(line)))[1]
             normalized == normalizePatchPath(rawPath)
         IN  IF ~IsHeaderLine(line) \/ rawPath = <<>> \/ normalized = NoPath
                \/ normalized \in Range(paths)
             THEN extractFrom(Tail(lines), paths)
             ELSE extractFrom(Tail(lines), Append(paths, normalized))

extractPatchPaths(patch) == extractFrom(patch, <<>>)

\* a variant that takes the fuzz value 0 for no value
buildPatchArgsDropsZero(options) ==
    (IF options.reverse THEN <<Arg("--reverse")>> ELSE <<>>)
    \o (IF options.fuzz \notin {<<>>, <<"0">>} THEN <<Arg("-C"), options.fuzz>> ELSE <<>>)

buildPatchArgs(options) ==
    (IF options.reverse THEN <<Arg("--reverse")>> ELSE <<>>)
    \o (IF options.fuzz # <<>> THEN <<Arg("-C"), options.fuzz>> ELSE <<>>)

\* a variant that only validates the first path of the patch
validatePatchPathsFirstOnly(paths) ==
    IF Len(paths) = 0
    THEN <<Lit("Patch does not include any file paths.")>>
    ELSE IF ~resolvePath(paths[1]).ok
         THEN <<Lit("Invalid patch path"), [kind |-> "path", path |-> paths[1]],
                Lit(resolvePath(paths[1]).message)>>
         ELSE <<>>

\* a variant that lets a patch without paths through
validatePatchPathsAcceptsEmpty(paths) ==
    LET bad == {i \in 1..Len(paths) : ~resolvePath(paths[i]).ok} IN
    IF bad = {} THEN <<>>
    ELSE LET i == CHOOSE k \in bad : \A j \in bad : k <= j IN
         <<Lit("Invalid patch path"), [kind |-> "path", path |-> paths[i]],
           Lit(resolvePath(paths[i]).message)>>

\* the validation error, or <<>> for null
validatePatchPaths(paths) ==
    IF Len(paths) = 0
    THEN <<Lit("Patch does not include any file paths.")>>
    ELSE LET bad == {i \in 1..Len(paths) : ~resolvePath(paths[i]).ok} IN
         IF bad = {} THEN <<>>
         ELSE LET i == CHOOSE k \in bad : \A j \in bad : k <= j IN
              <<Lit("Invalid patch path"), [kind |-> "path", path |-> paths[i]],
                Lit(resolvePath(paths[i]).message)>>

TempDir == <<Sep, "tmp", Sep, "mcp-patch-XXXXXX">>

patchFilePath == TempDir \o <<Sep, "patch.diff">>

Paths(list) == [kind |-> "files", paths |-> list]

\* a variant that goes on to the real apply whatever the check said
apAfterCheckIgnoresExit(checkResult, dryRun, patchPaths) ==
    IF dryRun
    THEN [ret |-> TRUE,
          response |-> textResponse(<<Lit("Patch check succeeded (dry run)."),
                                      Paths(patchPaths)>>)]
    ELSE [ret |-> FALSE, next |-> "ap_apply"]

\* a variant that applies the patch on a dry run too
apAfterCheckIgnoresDryRun(checkResult, dryRun, patchPaths) ==
    IF checkResult.exitCode # 0
    THEN [ret |-> TRUE,
          response |-> errorResponse(
              <<Lit("Patch check failed (context not found or file missing)."),
                formatCommandFailure(checkResult)>>)]
    ELSE [ret |-> FALSE, next |-> "ap_apply"]

apAfterCheck(checkResult, dryRun, patchPaths) ==
    IF checkResult.exitCode # 0
    THEN [ret |-> TRUE,
          response |-> errorResponse(
              <<Lit("Patch check failed (context not found or file missing)."),
                formatCommandFailure(checkResult)>>)]
    ELSE IF dryRun
         THEN [ret |-> TRUE,
               response |-> textResponse(<<Lit("Patch check succeeded (dry run)."),
                                           Paths(patchPaths)>>)]
         ELSE [ret |-> FALSE, next |-> "ap_apply"]

\* a variant that stages and commits whatever the apply said
apAfterApplyIgnoresExit(applyResult) == [ret |-> FALSE, next |-> "cp_stage"]

apAfterApply(applyResult) ==
    IF applyResult.exitCode # 0
    THEN [ret |-> TRUE,
          response |-> errorResponse(<<Lit("Patch apply failed (partial apply possible)."),
                                       formatCommandFailure(applyResult)>>)]
    ELSE [ret |-> FALSE, next |-> "cp_stage"]

\* fileTools 261-283
apAfterCommit(o, r, patchPaths) ==
    IF ~o.ok
    THEN errorResponse(<<Lit("Error"), Lit(o.step), Lit("patch changes."),
                         formatCommandFailure(o.result)>>)
    ELSE textResponse(
            <<Lit("Patch applied successfully."), Paths(patchPaths)>>
            \o (IF formatCommandOutput(r.applyResult[1]) # <<>>
                THEN <<Output(formatCommandOutput(r.applyResult[1]))>> ELSE <<>>)
            \o CommitOutput(o) \o CommitNote(o))

(***************************************************************************)
(* tools/startWorkTools: the handler between two awaits                    *)
(***************************************************************************)
Failed(label, result) ==
    [ret |-> TRUE, response |-> errorResponse(<<Lit(label), formatCommandFailure(result)>>)]

swAfterSetUrl(setUrlResult) ==
    IF setUrlResult.exitCode # 0
    THEN Failed("Error setting git remote URL.", setUrlResult)
    ELSE [ret |-> FALSE, next |-> "sw_pull"]

\* a variant that goes on to the branch after a failed pull
swAfterPullIgnoresExit(pullResult) == [ret |-> FALSE, next |-> "sw_create"]

swAfterPull(pullResult) ==
    IF pullResult.exitCode # 0
    THEN Failed("Error pulling changes.", pullResult)
    ELSE [ret |-> FALSE, next |-> "sw_create"]

\* a variant that installs even though the branch step failed
swAfterCreateBranchIgnoresExit(createBranchResult) == [ret |-> FALSE, next |-> "sw_install"]

swAfterCreateBranch(createBranchResult) ==
    IF createBranchResult.exitCode # 0
    THEN Failed("Error creating/pushing branch.", createBranchResult)
    ELSE [ret |-> FALSE, next |-> "sw_install"]

\* a variant that installs again after the install
swAfterInstallInstallsAgain(installResult) ==
    IF installResult.exitCode # 0
    THEN Failed("Error installing dependencies.", installResult)
    ELSE [ret |-> FALSE, next |-> "sw_install"]

swAfterInstall(installResult) ==
    IF installResult.exitCode # 0
    THEN Failed("Error installing dependencies.", installResult)
    ELSE [ret |-> FALSE, next |-> "cp_stage"]

StepMessage(withOutput, completed, result) ==
    IF formatCommandOutput(result) # <<>>
    THEN <<Lit(withOutput), Output(formatCommandOutput(result))>>
    ELSE <<Lit(completed)>>

\* startWorkTools.ts 68-100
swAfterCommit(o, r) ==
    IF ~o.ok
    THEN errorResponse(<<Lit("Error"), Lit(o.step), Lit("start_work changes."),
                         formatCommandFailure(o.result)>>)
    ELSE textResponse(
            StepMessage("Git remote set-url output:", "Git remote set-url completed.",
                        r.setUrlResult[1])
            \o StepMessage("Git pull output:", "Git pull completed.", r.pullResult[1])
            \o StepMessage("Git branch create/push output:",
                           "Git branch create/push completed.", r.createBranchResult[1])
            \o StepMessage("Dependency install output:", "Dependency install completed.",
                           r.installResult[1])
            \o CommitOutput(o) \o CommitNote(o))

(***************************************************************************)
(* tools/gitTools and tools/fileTools: the read-only queries               *)
(***************************************************************************)
statusAsync == runGitAsync(<<Arg("status")>>)

OutputOr(result, completed) ==
    IF formatCommandOutput(result) # <<>>
    THEN <<Output(formatCommandOutput(result))>>
    ELSE <<Lit(completed)>>

\* a variant that reports the output whatever the exit status
vsAfterStatusIgnoresExit(result) ==
    [ret |-> TRUE,
     response |-> textResponse(OutputOr(result, "Repository status completed."))]

vsAfterStatus(result) ==
    IF result.exitCode # 0
    THEN Failed("Error getting repository status.", result)
    ELSE [ret |-> TRUE,
          response |-> textResponse(OutputOr(result, "Repository status completed."))]

\* path.relative(workspaceDir, resolvedPath) || "."
relativeTarget(resolvedPath) ==
    LET relativePath == SubSeq(resolvedPath, Len(WorkspaceRoot) + 2, Len(resolvedPath))
    IN  IF relativePath = <<>> THEN <<".">> ELSE relativePath

searchArgs(pattern, target) ==
    <<Arg("rg"), Arg("--with-filename"), Arg("--line-number"), Arg("--column"),
      Arg("--no-heading"), Arg("--color"), Arg("never"), pattern, target>>

scAfterSearch(result) ==
    IF result.exitCode = 1
    THEN [ret |-> TRUE, response |-> textResponse(<<Lit("No matches found.")>>)]
    ELSE IF result.exitCode # 0
         THEN Failed("Error searching content.", result)
         ELSE [ret |-> TRUE,
               response |-> textResponse(
                   OutputOr(result, "Search completed with no output."))]

(***************************************************************************)
(* tools/fileTools: the tools that change files                            *)
(***************************************************************************)
FileTools == {"write_file", "delete_file", "create_folder", "delete_folder",
              "copy_folder"}

Path(p) == [kind |-> "path", path |-> p]

\* a variant that always commits the first name
affectedNameAlwaysName(t, in) == in.name

\* the path handed to commitAndPushAsync
affectedName(t, in) == IF t = "copy_folder" THEN in.newName ELSE in.name

\* a variant that checks the first name only
ftInvalidNameFirstOnly(t, in) ==
    IF ~resolvePath(in.name).ok THEN <<resolvePath(in.name).message>> ELSE <<>>

\* workspaceManager.*Async: the names are resolved before the file system
\* is touched; the result is the error thrown, or <<>>
ftInvalidName(t, in) ==
    IF ~resolvePath(in.name).ok THEN <<resolvePath(in.name).message>>
    ELSE IF t = "copy_folder" /\ ~resolvePath(in.newName).ok
         THEN <<resolvePath(in.newName).message>>
         ELSE <<>>

ftCatchLabel(t) ==
    CASE t = "write_file" -> "Error writing file:"
      [] t = "delete_file" -> "Error deleting file:"
      [] t = "create_folder" -> "Error creating folder:"
      [] t = "delete_folder" -> "Error deleting folder:"
      [] t = "copy_folder" -> "Error copying folder:"

ftFailureWords(t) ==
    CASE t = "write_file" -> ""
      [] t = "delete_file" -> "deletion for"
      [] t = "create_folder" -> "folder creation for"
      [] t = "delete_folder" -> "deletion for"
      [] t = "copy_folder" -> "copy for"

ftSuccess(t, in) ==
    CASE t = "write_file" -> <<Lit("Successfully wrote to"), Path(in.name)>>
      [] t = "delete_file" -> <<Lit("Successfully deleted"), Path(in.name)>>
      [] t = "create_folder" -> <<Lit("Successfully created"), Path(in.name)>>
      [] t = "delete_folder" -> <<Lit("Successfully deleted"), Path(in.name)>>
      [] t = "copy_folder" ->
            <<Lit("Successfully copied"), Path(in.name), Lit("to"), Path(in.newName)>>

\* a variant that reports the file operation whatever the commit did
ftAfterCommitHidesFailure(t, o, in) ==
    IF ~o.ok
    THEN textResponse(ftSuccess(t, in))
    ELSE textResponse(ftSuccess(t, in) \o CommitOutput(o)
                      \o (IF t = "create_folder" THEN CommitNote(o) ELSE <<>>))

\* the handler after commitAndPushAsync returned: only create_folder adds
\* the note of a skipped commit
ftAfterCommit(t, o, in) ==
    IF ~o.ok
    THEN errorResponse(<<Lit("Error"), Lit(o.step), Lit(ftFailureWords(t)),
                         Path(affectedName(t, in)), formatCommandFailure(o.result)>>)
    ELSE textResponse(ftSuccess(t, in) \o CommitOutput(o)
                      \o (IF t = "create_folder" THEN CommitNote(o) ELSE <<>>))

(***************************************************************************)
(* tools/npmTools                                                          *)
(***************************************************************************)
NpmTools == {"install_dependencies", "install_package", "run_build", "run_script"}

installPackageAsync(packageName) == <<Arg("npm"), Arg("install"), packageName>>

runScriptAsync(script) == <<Arg("npm"), Arg("run"), script>>

npmArgs(t, in) ==
    CASE t = "install_dependencies" ->
            installAllAsync([legacyPeerDeps |-> in.legacyPeerDeps])
      [] t = "install_package" -> installPackageAsync(in.name)
      [] t = "run_build" -> runScriptAsync(<<"build">>)
      [] t = "run_script" -> runScriptAsync(in.script)

npmFailure(t) ==
    CASE t = "install_dependencies" -> "Error installing dependencies."
      [] t = "install_package" -> "Error installing package"
      [] t = "run_build" -> "Error running build script."
      [] t = "run_script" -> "Error running script"

npmCatchLabel(t) ==
    CASE t = "install_dependencies" -> "Error installing dependencies:"
      [] t = "install_package" -> "Error installing package:"
      [] t = "run_build" -> "Error running build script:"
      [] t = "run_script" -> "Error running script:"

npmChanges(t) ==
    CASE t = "install_dependencies" -> "dependency changes."
      [] t = "install_package" -> "package changes."
      [] t = "run_build" -> "build changes."
      [] t = "run_script" -> "script changes."

npmCompleted(t) ==
    CASE t = "install_dependencies" -> "Dependency install completed."
      [] t = "install_package" -> "Package install completed"
      [] t = "run_build" -> "Build script completed."
      [] t = "run_script" -> "Script completed."

\* a variant that commits whatever npm's exit status
npmAfterRunIgnoresExit(t, result) == [ret |-> FALSE, next |-> "cp_stage"]

npmAfterRun(t, result) ==
    IF result.exitCode # 0
    THEN Failed(npmFailure(t), result)
    ELSE [ret |-> FALSE, next |-> "cp_stage"]

npmAfterCommit(t, o, r) ==
    IF ~o.ok
    THEN errorResponse(<<Lit("Error"), Lit(o.step), Lit(npmChanges(t)),
                         formatCommandFailure(o.result)>>)
    ELSE textResponse(OutputOr(r.result[1], npmCompleted(t))
                      \o CommitOutput(o) \o CommitNote(o))

(***************************************************************************)
(* State                                                                   *)
(***************************************************************************)
\* the repository before anything was committed
NoRepository == [unpushed |-> 0, branches |-> {}]

\* the repository after a git command that ended as proc: the command's
\* effect once it exited 0, none when it failed, either when a signal ended it
gitEffect(proc, repo, done) ==
    CASE proc.error = "none" -> {done}
      [] proc.error \in KillSignals -> {repo, done}
      [] OTHER -> {repo}

\* git commit: one more commit that the remote does not have
committed(repo) == [repo EXCEPT !.unpushed = @ + 1]

\* git push: the remote has every commit
pushed(repo) == [repo EXCEPT !.unpushed = 0]

\* git checkout -b: the branch exists
branched(repo, branch) == [repo EXCEPT !.branches = @ \cup {branch}]

\* git checkout -b of a branch that exists already does not exit 0
canExit(proc, repo, branch) == branch \in repo.branches => proc.error # "none"

ResultNames == {"setUrlResult", "pullResult", "createResult", "pushBranchResult",
                "createBranchResult", "installResult", "checkResult",
                "applyResult", "addResult", "commitResult", "pushResult", "result"}

NoResults == [n \in ResultNames |-> <<>>]

CommitMessages == {"msg"}

File(name) == <<name>>

PathScopes == {[given |-> FALSE, list |-> <<>>],
               [given |-> TRUE, list |-> <<>>],
               [given |-> TRUE, list |-> <<File("a.txt")>>],
               [given |-> TRUE, list |-> <<File("a.txt"), File("b.txt")>>]}

Init ==
    /\ tool = "none"
    /\ pc = "idle"
    /\ input = [commitMessage |-> "msg"]
    /\ calls = <<>>
    /\ res = NoResults
    /\ outcome = <<>>
    /\ response = <<>>
    /\ thrown = <<>>
    /\ tempDir = "absent"
    /\ invocations = 0
    /\ worktree = <<>>
    /\ returned = <<>>
    /\ repository = NoRepository

\* the words a handler's catch block puts before the error message
catchLabel(t) ==
    CASE t \in FileTools -> ftCatchLabel(t)
      [] t \in NpmTools -> npmCatchLabel(t)
      [] t = "read_file" -> "Error reading file:"
      [] t = "search_content" -> "Error searching content:"
      [] t = "vcs_status" -> "Error getting repository status:"

\* the path scope each caller hands to commitAndPushAsync
commitPaths ==
    CASE tool = "commitAndPushAsync" -> input.paths
      [] tool = "start_work" -> [given |-> FALSE, list |-> <<>>]
      [] tool = "apply_patch" -> [given |-> TRUE, list |-> extractPatchPaths(input.patch)]
      [] tool \in FileTools -> [given |-> TRUE, list |-> <<affectedName(tool, input)>>]
      [] tool \in NpmTools -> [given |-> FALSE, list |-> <<>>]

\* the caller's code after commitAndPushAsync returned outcome o
resume(o) ==
    CASE tool = "commitAndPushAsync" -> [response |-> <<>>, pc |-> "done"]
      [] tool = "start_work" -> [response |-> <<swAfterCommit(o, res)>>, pc |-> "done"]
      [] tool = "apply_patch" ->
            [response |-> <<apAfterCommit(o, res, extractPatchPaths(input.patch))>>,
             pc |-> "ap_finally"]
      [] tool \in FileTools ->
            [response |-> <<ftAfterCommit(tool, o, input)>>, pc |-> "done"]
      [] tool \in NpmTools ->
            [response |-> <<npmAfterCommit(tool, o, res)>>, pc |-> "done"]

\* a variant of apply_patch's catch block that is not followed by the finally
caughtSkipsFinally(message) ==
    CASE tool = "commitAndPushAsync" ->
            [response |-> <<>>, thrown |-> <<message>>, pc |-> "done"]
      [] tool = "start_work" ->
            [response |-> <<errorResponse(<<Lit("Error starting work:"), Lit(message)>>)>>,
             thrown |-> <<>>, pc |-> "done"]
      [] tool = "apply_patch" ->
            [response |-> <<errorResponse(<<Lit("Error applying patch:"), Lit(message)>>)>>,
             thrown |-> <<>>, pc |-> "done"]
      [] OTHER ->
            [response |-> <<errorResponse(<<Lit(catchLabel(tool)), Lit(message)>>)>>,
             thrown |-> <<>>, pc |-> "done"]

\* the caller's code after an awaited step threw
caught(message) ==
    CASE tool = "commitAndPushAsync" ->
            [response |-> <<>>, thrown |-> <<message>>, pc |-> "done"]
      [] tool = "start_work" ->
            [response |-> <<errorResponse(<<Lit("Error starting work:"), Lit(message)>>)>>,
             thrown |-> <<>>, pc |-> "done"]
      [] tool = "apply_patch" ->
            [response |-> <<errorResponse(<<Lit("Error applying patch:"), Lit(message)>>)>>,
             thrown |-> <<>>, pc |-> "ap_finally"]
      [] OTHER ->
            [response |-> <<errorResponse(<<Lit(catchLabel(tool)), Lit(message)>>)>>,
             thrown |-> <<>>, pc |-> "done"]

Return(o) ==
    /\ outcome' = <<o>>
    /\ response' = resume(o).response
    /\ pc' = resume(o).pc
    /\ UNCHANGED thrown

Raise(message) ==
    /\ response' = caught(message).response
    /\ thrown' = caught(message).thrown
    /\ pc' = caught(message).pc
    /\ UNCHANGED outcome

Goto(next) ==
    /\ pc' = next
    /\ UNCHANGED <<outcome, response, thrown>>

\* a return inside apply_patch's try block runs the finally block first
Respond(r) ==
    /\ response' = <<r>>
    /\ pc' = IF tool = "apply_patch" THEN "ap_finally" ELSE "done"
    /\ UNCHANGED <<outcome, thrown>>

\* the CommandResults a step of a tool handler can come back with
Results(step) ==
    {runCommandAsync(p).result :
        p \in {q \in ProcessExits(FALSE, step) : q.error \in {"none", "exit"}}}

\* what a subprocess that rewrites files can have done to the workspace by
\* the time execFile's callback runs
Effects(step, proc) ==
    CASE proc.error \in LaunchErrors -> {<<>>}
      [] proc.error = "none" -> {<<[by |-> step, whole |-> TRUE]>>}
      [] OTHER -> {<<>>, <<[by |-> step, whole |-> FALSE]>>}

\* one awaited subprocess of a tool handler: launch, store the result, and
\* run the handler's code after the await, given as after[result]
StepWith(proc, step, argv, name, after) ==
    LET run == runCommandAsync(proc) IN
    /\ calls' = Append(calls, Call(step, argv, proc))
    /\ IF run.kind = "error"
       THEN Raise(run.message) /\ UNCHANGED res
       ELSE /\ res' = [res EXCEPT ![name] = <<run.result>>]
            /\ LET a == after[run.result] IN
               IF a.ret THEN Respond(a.response) ELSE Goto(a.next)

Step(step, argv, name, after) ==
    \E proc \in ProcessExits(FALSE, step) : StepWith(proc, step, argv, name, after)

(***************************************************************************)
(* commitAndPushAsync called on its own                                    *)
(***************************************************************************)
CallCommitAndPush ==
    /\ pc = "idle"
    /\ invocations < MaxInvocations
    /\ \E m \in CommitMessages, p \in PathScopes :
        input' = [commitMessage |-> m, paths |-> p]
    /\ tool' = "commitAndPushAsync"
    /\ pc' = "cp_stage"
    /\ invocations' = invocations + 1
    /\ calls' = <<>>
    /\ res' = NoResults
    /\ outcome' = <<>>
    /\ response' = <<>>
    /\ thrown' = <<>>
    /\ tempDir' = "absent"
    /\ worktree' = <<>>
    /\ UNCHANGED <<returned, repository>>

Stage ==
    /\ pc = "cp_stage"
    /\ \E proc \in ProcessExits(tool = "commitAndPushAsync", "stage") :
        LET run == runCommandAsync(proc) IN
        /\ calls' = Append(calls, Call("stage", addAsync(addArgs(commitPaths)), proc))
        /\ IF run.kind = "error"
           THEN Raise(run.message) /\ UNCHANGED res
           ELSE /\ res' = [res EXCEPT !.addResult = <<run.result>>]
                /\ LET a == afterAdd(run.result) IN
                   IF a.ret THEN Return(a.outcome) ELSE Goto(a.next)
    /\ UNCHANGED <<tool, input, tempDir, invocations, worktree, returned, repository>>

Commit ==
    /\ pc = "cp_commit"
    /\ \E proc \in ProcessExits(tool = "commitAndPushAsync", "commit") :
        LET run == runCommandAsync(proc) IN
        /\ repository' \in gitEffect(proc, repository, committed(repository))
        /\ calls' = Append(calls, Call("commit", commitAsync(input.commitMessage), proc))
        /\ IF run.kind = "error"
           THEN Raise(run.message) /\ UNCHANGED res
           ELSE /\ res' = [res EXCEPT !.commitResult = <<run.result>>]
                /\ LET a == afterCommit(res.addResult[1], run.result) IN
                   IF a.ret THEN Return(a.outcome) ELSE Goto(a.next)
    /\ UNCHANGED <<tool, input, tempDir, invocations, worktree, returned>>

Push ==
    /\ pc = "cp_push"
    /\ \E proc \in ProcessExits(tool = "commitAndPushAsync", "push") :
        LET run == runCommandAsync(proc) IN
        /\ repository' \in gitEffect(proc, repository, pushed(repository))
        /\ calls' = Append(calls, Call("push", pushAsync, proc))
        /\ IF run.kind = "error"
           THEN Raise(run.message) /\ UNCHANGED res
           ELSE /\ res' = [res EXCEPT !.pushResult = <<run.result>>]
                /\ Return(afterPush(res.addResult[1], res.commitResult[1],
                                    run.result).outcome)
    /\ UNCHANGED <<tool, input, tempDir, invocations, worktree, returned>>

(***************************************************************************)
(* start_work                                                              *)
(***************************************************************************)
Branch == <<"feature">>

PlainEnv == [PROJECT_REPO |-> <<"github.com/o/r">>, GITHUB_TOKEN |-> <<"tok">>]

DecoratedEnv == [PROJECT_REPO |-> <<"https://", "user", "@", "github.com/o/r", "/">>,
                 GITHUB_TOKEN |-> <<"tok">>]

NoRepoEnv == [PROJECT_REPO |-> <<>>, GITHUB_TOKEN |-> <<"tok">>]

NoTokenEnv == [PROJECT_REPO |-> <<"github.com/o/r">>, GITHUB_TOKEN |-> <<>>]

StartWorkInputs ==
    {[env |-> PlainEnv, branch |-> Branch, startPoint |-> <<>>,
      currentWorkingDirectory |-> <<".">>, legacyPeerDeps |-> FALSE, commitMessage |-> "msg"],
     [env |-> DecoratedEnv, branch |-> Branch, startPoint |-> <<"main">>,
      currentWorkingDirectory |-> <<"app">>, legacyPeerDeps |-> TRUE, commitMessage |-> "msg"],
     [env |-> PlainEnv, branch |-> Branch, startPoint |-> <<>>,
      currentWorkingDirectory |-> <<"..">>, legacyPeerDeps |-> FALSE, commitMessage |-> "msg"],
     [env |-> NoRepoEnv, branch |-> Branch, startPoint |-> <<>>,
      currentWorkingDirectory |-> <<".">>, legacyPeerDeps |-> FALSE, commitMessage |-> "msg"],
     [env |-> NoTokenEnv, branch |-> Branch, startPoint |-> <<>>,
      currentWorkingDirectory |-> <<".">>, legacyPeerDeps |-> FALSE, commitMessage |-> "msg"]}

\* the handler up to its first await: setRemoteUrlFromEnvAsync throws
\* before launching anything when the configuration is missing
CallStartWork ==
    /\ pc = "idle"
    /\ invocations < MaxInvocations
    /\ tool' = "start_work"
    /\ invocations' = invocations + 1
    /\ calls' = <<>>
    /\ res' = NoResults
    /\ outcome' = <<>>
    /\ thrown' = <<>>
    /\ tempDir' = "absent"
    /\ worktree' = <<>>
    /\ UNCHANGED <<returned, repository>>
    /\ \E i \in StartWorkInputs :
        /\ input' = i
        /\ IF envMissing(i.env)
           THEN /\ response' = <<errorResponse(<<Lit("Error starting work:"),
                        Lit("Missing PROJECT_REPO or GITHUB_TOKEN environment variable.")>>)>>
                /\ pc' = "done"
           ELSE /\ response' = <<>>
                /\ pc' = "sw_seturl"

SetRemoteUrl ==
    /\ pc = "sw_seturl"
    /\ Step("set-url", setRemoteUrlFromEnvAsync(input.env), "setUrlResult",
            [r \in Results("set-url") |-> swAfterSetUrl(r)])
    /\ UNCHANGED <<tool, input, tempDir, invocations, worktree, returned, repository>>

Pull ==
    /\ pc = "sw_pull"
    /\ Step("pull", pullAsync, "pullResult", [r \in Results("pull") |-> swAfterPull(r)])
    /\ UNCHANGED <<tool, input, tempDir, invocations, worktree, returned, repository>>

\* createAndPushBranchAsync: git checkout -b; on failure it returns to the handler
CreateBranch ==
    /\ pc = "sw_create"
    /\ \E proc \in ProcessExits(FALSE, "create-branch") :
        LET run == runCommandAsync(proc) IN
        /\ canExit(proc, repository, input.branch)
        /\ repository' \in gitEffect(proc, repository, branched(repository, input.branch))
        /\ calls' = Append(calls, Call("create-branch",
                        runGitAsync(createArgs(input.branch, input.startPoint)), proc))
        /\ IF run.kind = "error"
           THEN Raise(run.message) /\ UNCHANGED res
           ELSE LET c == afterCreate(run.result) IN
                IF c.ret
                THEN /\ res' = [res EXCEPT !.createResult = <<run.result>>,
                                           !.createBranchResult = <<c.result>>]
                     /\ LET a == swAfterCreateBranch(c.result) IN
                        IF a.ret THEN Respond(a.response) ELSE Goto(a.next)
                ELSE /\ res' = [res EXCEPT !.createResult = <<run.result>>]
                     /\ Goto(c.next)
    /\ UNCHANGED <<tool, input, tempDir, invocations, worktree, returned>>

\* createAndPushBranchAsync: git push -u origin, then back in the handler
PushBranch ==
    /\ pc = "sw_pushbranch"
    /\ \E proc \in ProcessExits(FALSE, "push-branch") :
        LET run == runCommandAsync(proc) IN
        /\ repository' \in gitEffect(proc, repository, pushed(repository))
        /\ calls' = Append(calls, Call("push-branch",
                                     runGitAsync(pushBranchArgs(input.branch)), proc))
        /\ IF run.kind = "error"
           THEN Raise(run.message) /\ UNCHANGED res
           ELSE LET r == afterPushBranch(res.createResult[1], run.result) IN
                /\ res' = [res EXCEPT !.pushBranchResult = <<run.result>>,
                                      !.createBranchResult = <<r>>]
                /\ LET a == swAfterCreateBranch(r) IN
                   IF a.ret THEN Respond(a.response) ELSE Goto(a.next)
    /\ UNCHANGED <<tool, input, tempDir, invocations, worktree, returned>>

\* npmClient.installAllAsync: the working directory is validated first
Install ==
    /\ pc = "sw_install"
    /\ LET dir == resolveWorkingDirectory(input.currentWorkingDirectory) IN
       IF ~dir.ok
       THEN Raise(dir.message) /\ UNCHANGED <<calls, res, worktree>>
       ELSE \E proc \in ProcessExits(FALSE, "install") :
            /\ StepWith(proc, "install",
                        installAllAsync([legacyPeerDeps |-> input.legacyPeerDeps]),
                        "installResult",
                        [r \in Results("install") |-> swAfterInstall(r)])
            /\ \E effect \in Effects("install", proc) : worktree' = worktree \o effect
    /\ UNCHANGED <<tool, input, tempDir, invocations, returned, repository>>

(***************************************************************************)
(* apply_patch                                                             *)
(***************************************************************************)
Header(text) == [kind |-> "header", text |-> text]

Hunk == [kind |-> "hunk", text |-> <<"@@", " ", "-1", " ", "+1", " ", "@@">>]

\* a line of a hunk body is its sign followed by the line of the file: the
\* sign and two more of the same character read as one token
Added(text) ==
    [kind |-> "body",
     text |-> IF text # <<>> /\ text[1] = "++"
              THEN <<"+++">> \o Tail(text)
              ELSE <<"+">> \o text]

Removed(text) ==
    [kind |-> "body",
     text |-> IF text # <<>> /\ text[1] = "--"
              THEN <<"---">> \o Tail(text)
              ELSE <<"-">> \o text]

ModifyPatch ==
    <<Header(<<"---", " ", "a", Sep, "foo.txt">>),
      Header(<<"+++", " ", "b", Sep, "foo.txt">>), Hunk, Added(<<"x">>)>>

CreatePatch ==
    <<Header(<<"---", " ">> \o DevNull),
      Header(<<"+++", " ", "b", Sep, "sub", Sep, "new.txt", "\t", "2026">>),
      Hunk, Added(<<"x">>)>>

EscapingPatch ==
    <<Header(<<"---", " ", "a", Sep, "..", Sep, "..", Sep, "etc", Sep, "x">>),
      Header(<<"+++", " ", "b", Sep, "..", Sep, "..", Sep, "etc", Sep, "x">>),
      Hunk, Added(<<"x">>)>>

MixedPatch ==
    <<Header(<<"---", " ", "a", Sep, "foo.txt">>),
      Header(<<"+++", " ", "b", Sep, "foo.txt">>), Hunk, Added(<<"x">>),
      Header(<<"---", " ">> \o DevNull),
      Header(<<"+++", " ", Sep, "workspace", "2", Sep, "y">>), Hunk, Added(<<"x">>)>>

DevNullPatch ==
    <<Header(<<"---", " ">> \o DevNull), Header(<<"+++", " ">> \o DevNull)>>

HeaderlessPatch == <<Hunk, Added(<<"x">>)>>

Patches == {ModifyPatch, CreatePatch, EscapingPatch, MixedPatch, HeaderlessPatch,
            DevNullPatch}

PatchOptions ==
    {[dryRun |-> FALSE, reverse |-> FALSE, fuzz |-> <<>>],
     [dryRun |-> TRUE, reverse |-> TRUE, fuzz |-> <<"0">>],
     [dryRun |-> FALSE, reverse |-> TRUE, fuzz |-> <<"3">>],
     [dryRun |-> FALSE, reverse |-> FALSE, fuzz |-> <<"0">>]}

FsOutcomes == {"ok", "EACCES"}

\* the handler up to its first await: extraction and validation of the paths
CallApplyPatch ==
    /\ pc = "idle"
    /\ invocations < MaxInvocations
    /\ tool' = "apply_patch"
    /\ invocations' = invocations + 1
    /\ calls' = <<>>
    /\ res' = NoResults
    /\ outcome' = <<>>
    /\ thrown' = <<>>
    /\ tempDir' = "absent"
    /\ worktree' = <<>>
    /\ UNCHANGED <<returned, repository>>
    /\ \E patch \in Patches, o \in PatchOptions :
        /\ input' = [patch |-> patch, dryRun |-> o.dryRun, reverse |-> o.reverse,
                     fuzz |-> o.fuzz, commitMessage |-> "msg"]
        /\ LET validationError == validatePatchPaths(extractPatchPaths(patch)) IN
           IF validationError # <<>>
           THEN /\ response' = <<errorResponse(validationError)>>
                /\ pc' = "done"
           ELSE /\ response' = <<>>
                /\ pc' = "ap_mkdtemp"

\* fs.mkdtemp, outside the try block
MakeTempDir ==
    /\ pc = "ap_mkdtemp"
    /\ \E fs \in FsOutcomes :
        IF fs = "ok"
        THEN /\ tempDir' = "created"
             /\ pc' = "ap_write"
             /\ UNCHANGED thrown
        ELSE /\ thrown' = <<fs>>
             /\ pc' = "done"
             /\ UNCHANGED tempDir
    /\ UNCHANGED <<tool, input, calls, res, outcome, response, invocations, worktree,
                 returned, repository>>

\* fs.writeFile(patchFilePath, patch)
WritePatchFile ==
    /\ pc = "ap_write"
    /\ \E fs \in FsOutcomes :
        IF fs = "ok"
        THEN /\ tempDir' = "written"
             /\ Goto("ap_check")
        ELSE /\ Raise(fs)
             /\ UNCHANGED tempDir
    /\ UNCHANGED <<tool, input, calls, res, invocations, worktree, returned, repository>>

CheckPatch ==
    /\ pc = "ap_check"
    /\ Step("check",
            runGitAsync(<<Arg("apply"), Arg("--check")>>
                        \o buildPatchArgs([reverse |-> input.reverse, fuzz |-> input.fuzz])
                        \o <<patchFilePath>>),
            "checkResult",
            [r \in Results("check") |->
                apAfterCheck(r, input.dryRun, extractPatchPaths(input.patch))])
    /\ UNCHANGED <<tool, input, tempDir, invocations, worktree, returned, repository>>

\* git apply rewrites the files of the working tree
ApplyPatch ==
    /\ pc = "ap_apply"
    /\ \E proc \in ProcessExits(FALSE, "apply") :
        /\ StepWith(proc, "apply",
                    runGitAsync(<<Arg("apply")>>
                                \o buildPatchArgs([reverse |-> input.reverse,
                                                   fuzz |-> input.fuzz])
                                \o <<patchFilePath>>),
                    "applyResult", [r \in Results("apply") |-> apAfterApply(r)])
        /\ \E effect \in Effects("apply", proc) : worktree' = worktree \o effect
    /\ UNCHANGED <<tool, input, tempDir, invocations, returned, repository>>

\* finally: fs.rm(tempDir, { recursive: true, force: true })
RemoveTempDir ==
    /\ pc = "ap_finally"
    /\ tempDir' = "removed"
    /\ pc' = "done"
    /\ UNCHANGED <<tool, input, calls, res, outcome, response, thrown, invocations,
                 worktree, returned, repository>>

(***************************************************************************)
(* vcs_status, search_content, read_file                                   *)
(***************************************************************************)
\* a request arrives while the server is idle: handler t starts
Start(t) ==
    /\ pc = "idle"
    /\ invocations < MaxInvocations
    /\ tool' = t
    /\ invocations' = invocations + 1
    /\ calls' = <<>>
    /\ res' = NoResults
    /\ outcome' = <<>>
    /\ thrown' = <<>>
    /\ tempDir' = "absent"
    /\ worktree' = <<>>
    /\ UNCHANGED <<returned, repository>>

\* the catch block of a handler whose first statement threw
Rejected(t, message) ==
    /\ response' = <<errorResponse(<<Lit(catchLabel(t)), Lit(message)>>)>>
    /\ pc' = "done"

CallVcsStatus ==
    /\ Start("vcs_status")
    /\ input' = [commitMessage |-> "msg"]
    /\ response' = <<>>
    /\ pc' = "vs_status"

VcsStatus ==
    /\ pc = "vs_status"
    /\ Step("status", statusAsync, "result",
            [r \in Results("status") |-> vsAfterStatus(r)])
    /\ UNCHANGED <<tool, input, tempDir, invocations, worktree, returned, repository>>

InsideName == <<"sub", Sep, "a.txt">>

OtherInsideName == <<"copy">>

EscapingName == <<"..", Sep, "x">>

SearchPaths == {<<>>, InsideName, EscapingName}

\* resolveSearchTargetAsync up to its await of fs.stat
CallSearchContent ==
    /\ Start("search_content")
    /\ \E p \in SearchPaths :
        /\ input' = [pattern |-> <<"todo">>, path |-> p]
        /\ IF p = <<>>
           THEN response' = <<>> /\ pc' = "sc_search"
           ELSE IF ~resolvePath(p).ok
                THEN Rejected("search_content", resolvePath(p).message)
                ELSE response' = <<>> /\ pc' = "sc_stat"

StatSearchTarget ==
    /\ pc = "sc_stat"
    /\ \E fs \in FsOutcomes : IF fs = "ok" THEN Goto("sc_search") ELSE Raise(fs)
    /\ UNCHANGED <<tool, input, calls, res, tempDir, invocations, worktree, returned, repository>>

SearchContent ==
    /\ pc = "sc_search"
    /\ LET target == IF input.path = <<>> THEN <<".">>
                     ELSE relativeTarget(resolvePath(input.path).path)
       IN  Step("search", searchArgs(input.pattern, target), "result",
                [r \in Results("search") |-> scAfterSearch(r)])
    /\ UNCHANGED <<tool, input, tempDir, invocations, worktree, returned, repository>>

Names == {InsideName, EscapingName}

CallReadFile ==
    /\ Start("read_file")
    /\ \E n \in Names :
        /\ input' = [name |-> n]
        /\ IF ~resolvePath(n).ok
           THEN Rejected("read_file", resolvePath(n).message)
           ELSE response' = <<>> /\ pc' = "rf_read"

ReadFile ==
    /\ pc = "rf_read"
    /\ \E fs \in FsOutcomes :
        IF fs = "ok"
        THEN Respond(textResponse(<<[kind |-> "content", of |-> input.name]>>))
        ELSE Raise(fs)
    /\ UNCHANGED <<tool, input, calls, res, tempDir, invocations, worktree, returned, repository>>

(***************************************************************************)
(* write_file, delete_file, create_folder, delete_folder, copy_folder      *)
(***************************************************************************)
FileToolInputs(t) ==
    IF t = "copy_folder"
    THEN [name : Names, newName : {OtherInsideName, EscapingName},
          commitMessage : CommitMessages]
    ELSE [name : Names, commitMessage : CommitMessages]

\* the handler up to its first await: the names are resolved
CallFileTool ==
    \E t \in FileTools :
        /\ Start(t)
        /\ \E in \in FileToolInputs(t) :
            /\ input' = in
            /\ IF ftInvalidName(t, in) # <<>>
               THEN Rejected(t, ftInvalidName(t, in)[1])
               ELSE /\ response' = <<>>
                    /\ pc' = IF t = "copy_folder" THEN "ft_stat" ELSE "ft_fs"

\* copyFolderAsync: fs.stat of the source, which must be a directory
StatSource ==
    /\ pc = "ft_stat"
    /\ \E fs \in FsOutcomes \cup {"file"} :
        CASE fs = "ok" -> Goto("ft_fs")
          [] fs = "file" -> Raise("Source path is not a folder.")
          [] OTHER -> Raise(fs)
    /\ UNCHANGED <<tool, input, calls, res, tempDir, invocations, worktree, returned, repository>>

\* what a file-system call can have done to the workspace when it returns
fsEffects(t, fs) ==
    IF fs = "ok" THEN {<<[by |-> t, whole |-> TRUE]>>}
    ELSE IF t = "delete_file" THEN {<<>>}
         ELSE {<<>>, <<[by |-> t, whole |-> FALSE]>>}

\* fs.writeFile, fs.unlink, fs.mkdir, fs.rm, fs.cp
FileOperation ==
    /\ pc = "ft_fs"
    /\ \E fs \in FsOutcomes :
        /\ IF fs = "ok" THEN Goto("cp_stage") ELSE Raise(fs)
        /\ \E effect \in fsEffects(tool, fs) : worktree' = worktree \o effect
    /\ UNCHANGED <<tool, input, calls, res, tempDir, invocations, returned, repository>>

(***************************************************************************)
(* install_dependencies, install_package, run_build, run_script            *)
(***************************************************************************)
WorkingDirectories == {<<".">>, <<"..">>}

NpmToolInputs(t) ==
    CASE t = "install_dependencies" ->
            [currentWorkingDirectory : WorkingDirectories, legacyPeerDeps : BOOLEAN,
             commitMessage : CommitMessages]
      [] t = "install_package" ->
            [currentWorkingDirectory : WorkingDirectories, name : {<<"lodash">>},
             commitMessage : CommitMessages]
      [] t = "run_build" ->
            [currentWorkingDirectory : WorkingDirectories, commitMessage : CommitMessages]
      [] t = "run_script" ->
            [currentWorkingDirectory : WorkingDirectories, script : {<<"test">>},
             commitMessage : CommitMessages]

CallNpmTool ==
    \E t \in NpmTools :
        /\ Start(t)
        /\ \E in \in NpmToolInputs(t) : input' = in
        /\ response' = <<>>
        /\ pc' = "npm_run"

\* npmClient.*Async: the working directory is validated, then npm runs
NpmRun ==
    /\ pc = "npm_run"
    /\ LET dir == resolveWorkingDirectory(input.currentWorkingDirectory) IN
       IF ~dir.ok
       THEN Raise(dir.message) /\ UNCHANGED <<calls, res, worktree>>
       ELSE \E proc \in ProcessExits(FALSE, "npm") :
            /\ StepWith(proc, "npm", npmArgs(tool, input), "result",
                        [r \in Results("npm") |-> npmAfterRun(tool, r)])
            /\ \E effect \in Effects("npm", proc) : worktree' = worktree \o effect
    /\ UNCHANGED <<tool, input, tempDir, invocations, returned, repository>>

\* the response has been delivered; the server waits for the next request
Finish ==
    /\ pc = "done"
    /\ pc' = "idle"
    /\ tool' = "none"
    /\ input' = [commitMessage |-> "msg"]
    /\ calls' = <<>>
    /\ res' = NoResults
    /\ outcome' = <<>>
    /\ response' = <<>>
    /\ thrown' = <<>>
    /\ tempDir' = "absent"
    /\ worktree' = <<>>
    /\ UNCHANGED <<returned, repository>>
    /\ UNCHANGED invocations

Next ==
    \/ CallCommitAndPush
    \/ Stage
    \/ Commit
    \/ Push
    \/ CallStartWork
    \/ SetRemoteUrl
    \/ Pull
    \/ CreateBranch
    \/ PushBranch
    \/ Install
    \/ CallApplyPatch
    \/ MakeTempDir
    \/ WritePatchFile
    \/ CheckPatch
    \/ ApplyPatch
    \/ RemoveTempDir
    \/ CallVcsStatus
    \/ VcsStatus
    \/ CallSearchContent
    \/ StatSearchTarget
    \/ SearchContent
    \/ CallReadFile
    \/ ReadFile
    \/ CallFileTool
    \/ StatSource
    \/ FileOperation
    \/ CallNpmTool
    \/ NpmRun
    \/ Finish

Spec == Init /\ [][Next]_vars

\* the awaited operations of the orchestrator, start_work and apply_patch:
\* the exit of the subprocess in flight, or the end of a file-system call
Settles ==
    \/ Stage \/ Commit \/ Push
    \/ SetRemoteUrl \/ Pull \/ CreateBranch \/ PushBranch \/ Install
    \/ MakeTempDir \/ WritePatchFile \/ CheckPatch \/ ApplyPatch \/ RemoveTempDir

\* one invocation of the orchestrator, start_work or apply_patch, from the
\* request to its end
NextSequenced ==
    \/ CallCommitAndPush
    \/ CallStartWork
    \/ CallApplyPatch
    \/ Settles

\* every launched subprocess eventually exits: execFile's callback runs
SpecFair == Init /\ [][NextSequenced]_vars /\ WF_vars(Settles)

(***************************************************************************)
(* The utility functions called on their own: extractPatchPaths,           *)
(* WorkspaceManager.resolvePath and runCommandAsync, each applied once to  *)
(* an argument drawn from a bounded set.                                   *)
(***************************************************************************)
SeqsUpTo(S, n) == UNION {[1..k -> S] : k \in 0..n}

PatchLines ==
    {Header(<<"---", " ", "a", Sep, "foo.txt">>),
     Header(<<"+++", " ", "b", Sep, "foo.txt">>),
     Header(<<"+++", " ", "b", Sep, "sub", Sep, "new.txt", "\t", "2026">>),
     Header(<<"---", " ">> \o DevNull),
     Header(<<"+++", " ">> \o DevNull),
     Header(<<"---", " ", "a", Sep, "b", Sep, "x">>),
     Header(<<"+++", " ", "c", Sep, "foo.txt">>),
     Header(<<"+++", " ", "foo.txt">>),
     Header(<<"---", " ", "a", Sep>>),
     Header(<<"---", " ", "a", Sep>> \o DevNull),
     Header(<<"+++", " ", " ", "b", Sep, "foo.txt">>),
     Header(<<"+++", " ">>),
     Added(<<"x">>),
     Added(<<"++", " ", "y.txt">>),
     Removed(<<"--", " ", "..", Sep, "x">>),
     [kind |-> "body", text |-> <<"---", "a", Sep, "foo.txt">>],
     Hunk}

PathSegments ==
    {<<"..">>, <<".">>, <<>>, <<"sub">>, <<"file.txt">>, <<"outside">>,
     <<"workspace">>, <<"workspace", "2">>}

RECURSIVE JoinName(_)
JoinName(segs) ==
    IF segs = <<>> THEN <<>>
    ELSE IF Len(segs) = 1 THEN segs[1]
         ELSE segs[1] \o <<Sep>> \o JoinName(Tail(segs))

\* a file name: absolute or relative, its segments joined by the separator
FileName(absolute, segs) == (IF absolute THEN <<Sep>> ELSE <<>>) \o JoinName(segs)

RunnerExits == ProcessExits(TRUE, "commit") \cup ProcessExits(TRUE, "push")

\* the i-th line of a stream: lines differ in their length
StreamLine(i) == [j \in 1..i |-> "x"]

\* a stream of n lines
Stream(n) == [i \in 1..n |-> StreamLine(i)]

UtilityInputs ==
    [fn : {"extractPatchPaths"}, patch : SeqsUpTo(PatchLines, MaxPatchLines)]
    \cup [fn : {"formatStream"}, n : 0..MaxStreamLines,
          maxLines : 1..MaxStreamLines]
    \cup [fn : {"formatStream"}, n : {DefaultMaxLines, DefaultMaxLines + 1},
          maxLines : {DefaultMaxLines}]
    \cup [fn : {"resolvePath"}, absolute : BOOLEAN,
          segs : SeqsUpTo(PathSegments, MaxSegments)]
    \cup [fn : {"runCommandAsync"}, proc : RunnerExits]

InitUtility ==
    /\ \E i \in UtilityInputs :
        /\ tool = i.fn
        /\ input = i
    /\ pc = "call"
    /\ calls = <<>>
    /\ res = NoResults
    /\ outcome = <<>>
    /\ response = <<>>
    /\ thrown = <<>>
    /\ tempDir = "absent"
    /\ invocations = 1
    /\ worktree = <<>>
    /\ returned = <<>>
    /\ repository = NoRepository

Returns(value) ==
    /\ returned' = <<value>>
    /\ pc' = "returned"
    /\ UNCHANGED <<tool, input, calls, res, outcome, response, thrown, tempDir,
                   invocations, worktree, repository>>

CallExtractPatchPaths ==
    /\ pc = "call"
    /\ tool = "extractPatchPaths"
    /\ Returns(extractPatchPaths(input.patch))

\* the value is the resolved path, or the error resolvePath throws
CallResolvePath ==
    /\ pc = "call"
    /\ tool = "resolvePath"
    /\ Returns(resolvePath(FileName(input.absolute, input.segs)))

\* the value is the CommandResult the promise resolves with, or the error
\* it rejects with
CallRunCommandAsync ==
    /\ pc = "call"
    /\ tool = "runCommandAsync"
    /\ Returns(runCommandAsync(input.proc))

\* the value is the block of the stream, or nothing for an empty stream
CallFormatStream ==
    /\ pc = "call"
    /\ tool = "formatStream"
    /\ Returns(formatStream("stdout", Stream(input.n), input.maxLines))

NextUtility ==
    \/ CallExtractPatchPaths
    \/ CallFormatStream
    \/ CallResolvePath
    \/ CallRunCommandAsync

SpecUtility == InitUtility /\ [][NextUtility]_vars

(***************************************************************************)
(* Two invocations of commitAndPushAsync in flight on one workspace: each  *)
(* variable of an invocation is a function of the invocation, the log of   *)
(* subprocesses is shared                                                  *)
(***************************************************************************)
Invocations == {"A", "B"}

\* a variant in which a step waits until no other invocation is inside its
\* sequence
readyWhenAlone(i, at) ==
    /\ pc[i] = at
    /\ \A j \in Invocations \ {i} : pc[j] \in {"cp_stage", "done"}

\* part_005 125-129: runGitAsync launches the subprocess at once, so the step
\* an invocation has reached is in flight whatever the other invocations do
ready(i, at) == pc[i] = at

\* the outcomes of a subprocess that are told apart when two invocations run
ConcurrentExits(step) ==
    {p \in ProcessExits(FALSE, step) :
        /\ p.code \in {0, 1}
        /\ p.error \notin KillSignals
        /\ p.stderr = NoText
        /\ step # "commit" => p.stdout = NoText}

\* the path scopes of the two invocations: everything, or one file
ConcurrentScopes == {s \in PathScopes : s.given => Len(s.list) = 1}

InitConcurrent ==
    /\ tool = [i \in Invocations |-> "commitAndPushAsync"]
    /\ input \in [Invocations -> [commitMessage : CommitMessages, paths : ConcurrentScopes]]
    /\ pc = [i \in Invocations |-> "cp_stage"]
    /\ calls = <<>>
    /\ res = [i \in Invocations |-> NoResults]
    /\ outcome = [i \in Invocations |-> <<>>]
    /\ thrown = [i \in Invocations |-> <<>>]
    /\ response = <<>>
    /\ tempDir = "absent"
    /\ invocations = Cardinality(Invocations)
    /\ worktree = <<>>
    /\ returned = <<>>
    /\ repository = NoRepository

CallOf(i, step, argv, proc) ==
    [by |-> i, step |-> step, argv |-> argv, exit |-> proc]

ReturnOf(i, o) ==
    /\ outcome' = [outcome EXCEPT ![i] = <<o>>]
    /\ pc' = [pc EXCEPT ![i] = "done"]
    /\ UNCHANGED thrown

RaiseOf(i, message) ==
    /\ thrown' = [thrown EXCEPT ![i] = <<message>>]
    /\ pc' = [pc EXCEPT ![i] = "done"]
    /\ UNCHANGED outcome

GotoOf(i, next) ==
    /\ pc' = [pc EXCEPT ![i] = next]
    /\ UNCHANGED <<outcome, thrown>>

StageOf(i) ==
    /\ ready(i, "cp_stage")
    /\ \E proc \in ConcurrentExits("stage") :
        LET run == runCommandAsync(proc) IN
        /\ calls' = Append(calls, CallOf(i, "stage", addAsync(addArgs(input[i].paths)), proc))
        /\ IF run.kind = "error"
           THEN RaiseOf(i, run.message) /\ UNCHANGED res
           ELSE /\ res' = [res EXCEPT ![i].addResult = <<run.result>>]
                /\ LET a == afterAdd(run.result) IN
                   IF a.ret THEN ReturnOf(i, a.outcome) ELSE GotoOf(i, a.next)
    /\ UNCHANGED <<tool, input, response, tempDir, invocations, worktree, returned, repository>>

CommitOf(i) ==
    /\ ready(i, "cp_commit")
    /\ \E proc \in ConcurrentExits("commit") :
        LET run == runCommandAsync(proc) IN
        /\ repository' \in gitEffect(proc, repository, committed(repository))
        /\ calls' = Append(calls, CallOf(i, "commit", commitAsync(input[i].commitMessage), proc))
        /\ IF run.kind = "error"
           THEN RaiseOf(i, run.message) /\ UNCHANGED res
           ELSE /\ res' = [res EXCEPT ![i].commitResult = <<run.result>>]
                /\ LET a == afterCommit(res[i].addResult[1], run.result) IN
                   IF a.ret THEN ReturnOf(i, a.outcome) ELSE GotoOf(i, a.next)
    /\ UNCHANGED <<tool, input, response, tempDir, invocations, worktree, returned>>

PushOf(i) ==
    /\ ready(i, "cp_push")
    /\ \E proc \in ConcurrentExits("push") :
        LET run == runCommandAsync(proc) IN
        /\ repository' \in gitEffect(proc, repository, pushed(repository))
        /\ calls' = Append(calls, CallOf(i, "push", pushAsync, proc))
        /\ IF run.kind = "error"
           THEN RaiseOf(i, run.message) /\ UNCHANGED res
           ELSE /\ res' = [res EXCEPT ![i].pushResult = <<run.result>>]
                /\ ReturnOf(i, afterPush(res[i].addResult[1], res[i].commitResult[1],
                                         run.result).outcome)
    /\ UNCHANGED <<tool, input, response, tempDir, invocations, worktree, returned>>

NextConcurrent ==
    \/ \E i \in Invocations : StageOf(i)
    \/ \E i \in Invocations : CommitOf(i)
    \/ \E i \in Invocations : PushOf(i)

SpecConcurrent == InitConcurrent /\ [][NextConcurrent]_vars

(***************************************************************************)
(* Properties                                                              *)
(***************************************************************************)
StepsOf(cs) == [i \in 1..Len(cs) |-> cs[i].step]

CallsAt(step) == {i \in 1..Len(calls) : calls[i].step = step}

Invoked(step) == CallsAt(step) # {}

ExitedZero(c) == c.exit.error = "none"

ExitedNonZero(c) == c.exit.error = "exit"

\* the CommandResult of a process that ran and exited
ResultOf(proc) == [stdout |-> proc.stdout, stderr |-> proc.stderr, exitCode |-> proc.code]

SignatureIn(text) ==
    \E i \in 1..Len(text) :
        \/ IsInfix(<<"nothing", "to", "commit">>, LowerLine(text[i]))
        \/ IsInfix(<<"no", "changes", "added", "to", "commit">>, LowerLine(text[i]))

HasSignature(proc) == SignatureIn(proc.stdout) \/ SignatureIn(proc.stderr)

Failure(step, proc) == <<[ok |-> FALSE, step |-> step, result |-> ResultOf(proc)]>>

\* C1: when staging exits 0 and the commit exits non-zero with the
\* "nothing to commit" / "no changes added to commit" signature in its
\* output, the outcome is success with skipped = TRUE and a skip reason, and
\* no push is launched in that invocation.
C1_NoOpCommitSkipsPush ==
    \A i \in CallsAt("stage"), j \in CallsAt("commit") :
        (ExitedZero(calls[i]) /\ ExitedNonZero(calls[j]) /\ HasSignature(calls[j].exit))
        => /\ outcome # <<>>
           /\ outcome[1].ok
           /\ outcome[1].skipped
           /\ outcome[1].skipReason = "No changes to commit."
           /\ ~Invoked("push")
           /\ pc # "cp_push"

C1_Witness ==
    /\ pc = "done"
    /\ \E j \in CallsAt("commit") :
        /\ calls[j].exit.code = 1
        /\ calls[j].exit.stdout = NoText
        /\ calls[j].exit.stderr = CleanTreeText
    /\ outcome # <<>> /\ outcome[1].ok /\ outcome[1].skipped
    /\ ~Invoked("push")

\* C2: when staging and commit exit 0 and the push exits non-zero, the
\* outcome is the failure tagged "push" whose result is the push process's
\* stdout, stderr and exit status, whatever the non-zero status.
C2_PushFailureVerbatim ==
    \A i \in CallsAt("stage"), j \in CallsAt("commit"), k \in CallsAt("push") :
        (ExitedZero(calls[i]) /\ ExitedZero(calls[j]) /\ ExitedNonZero(calls[k]))
        => outcome = Failure("push", calls[k].exit)

C2_Witness ==
    /\ pc = "done"
    /\ \E k \in CallsAt("push") :
        /\ calls[k].exit.code = 128
        /\ calls[k].exit.stderr = WarnText
        /\ outcome = Failure("push", calls[k].exit)

\* C3: when staging exits non-zero the outcome is the failure tagged
\* "stage" carrying the staging result, and neither commit nor push is
\* launched in that invocation.
C3_StageFailureStops ==
    \A i \in CallsAt("stage") :
        ExitedNonZero(calls[i])
        => /\ outcome = Failure("stage", calls[i].exit)
           /\ ~Invoked("commit")
           /\ ~Invoked("push")
           /\ pc \notin {"cp_commit", "cp_push"}

C3_Witness ==
    /\ pc = "done"
    /\ \E i \in CallsAt("stage") :
        /\ ExitedNonZero(calls[i])
        /\ outcome = Failure("stage", calls[i].exit)
    /\ ~Invoked("commit")

\* C4: when the commit exits non-zero and its output does not carry the
\* no-op signature, the outcome is the failure tagged "commit" carrying the
\* commit result, and no push is launched.
C4_CommitFailureStops ==
    \A j \in CallsAt("commit") :
        (ExitedNonZero(calls[j]) /\ ~HasSignature(calls[j].exit))
        => /\ outcome = Failure("commit", calls[j].exit)
           /\ ~Invoked("push")
           /\ pc # "cp_push"

C4_Witness ==
    /\ pc = "done"
    /\ \E j \in CallsAt("commit") :
        /\ ExitedNonZero(calls[j])
        /\ calls[j].exit.stdout = SplitHeadText
        /\ calls[j].exit.stderr = SplitTailText
        /\ outcome = Failure("commit", calls[j].exit)
    /\ ~Invoked("push")

AllThreeExitZero(i, j, k) ==
    ExitedZero(calls[i]) /\ ExitedZero(calls[j]) /\ ExitedZero(calls[k])

FormattedOf(i) == formatCommandOutput(ResultOf(calls[i].exit))

NonEmptyOnly(blocks) == SelectSeq(blocks, LAMBDA b : b # <<>>)

\* C5 as stated: when stage, commit and push all exit 0 the outcome is
\* success with skipped = FALSE and outputs is the formatted output of the
\* stage, the commit and the push step, one entry per step, in that order.
C5_OutputsOfAllThreeSteps ==
    \A i \in CallsAt("stage"), j \in CallsAt("commit"), k \in CallsAt("push") :
        AllThreeExitZero(i, j, k)
        => outcome = <<[ok |-> TRUE,
                        outputs |-> <<FormattedOf(i), FormattedOf(j), FormattedOf(k)>>,
                        skipped |-> FALSE]>>

\* C5 amended: when stage, commit and push all exit 0 the outcome is
\* success with skipped = FALSE and outputs is the formatted outputs of the
\* steps that printed something, in the order stage, commit, push; a step
\* whose formatted output is empty contributes no entry.
C5_NonEmptyOutputsInOrder ==
    \A i \in CallsAt("stage"), j \in CallsAt("commit"), k \in CallsAt("push") :
        AllThreeExitZero(i, j, k)
        => outcome = <<[ok |-> TRUE,
                        outputs |-> NonEmptyOnly(<<FormattedOf(i), FormattedOf(j),
                                                   FormattedOf(k)>>),
                        skipped |-> FALSE]>>

C5_Witness ==
    /\ pc = "done"
    /\ \E i \in CallsAt("stage"), j \in CallsAt("commit"), k \in CallsAt("push") :
        /\ AllThreeExitZero(i, j, k)
        /\ calls[i].exit.stderr = WarnText
        /\ calls[j].exit.stdout = CleanTreeText
        /\ calls[k].exit.stdout = OkText
        /\ outcome # <<>> /\ outcome[1].ok /\ ~outcome[1].skipped
        /\ Len(outcome[1].outputs) = 3

OrchestratorSteps ==
    SelectSeq(StepsOf(calls), LAMBDA st : st \in {"stage", "commit", "push"})

Linear ==
    /\ IsPrefix(OrchestratorSteps, <<"stage", "commit", "push">>)
    /\ pc = "cp_stage" => OrchestratorSteps = <<>>
    /\ pc = "cp_commit" => OrchestratorSteps = <<"stage">>
    /\ pc = "cp_push" => OrchestratorSteps = <<"stage", "commit">>

OrchestratorEnded ==
    OrchestratorSteps # <<>> /\ pc \notin {"cp_stage", "cp_commit", "cp_push"}

LastOrchestratorCall ==
    calls[CHOOSE i \in 1..Len(calls) :
              /\ calls[i].step \in {"stage", "commit", "push"}
              /\ \A j \in (i + 1)..Len(calls) :
                    calls[j].step \notin {"stage", "commit", "push"}]

EndedDoneOrFailed ==
    /\ outcome # <<>>
    /\ \/ outcome[1].ok
       \/ /\ outcome[1].step \in {"stage", "commit", "push"}
          /\ outcome[1].step = LastOrchestratorCall.step

\* C6 as stated: the git commands of one commit-and-push run are a prefix
\* of (stage, commit, push), each launched at most once and never after a
\* later one, and the run ends in done or in failed(step) with step one of
\* stage, commit, push.
C6_LinearEndsDoneOrFailed ==
    /\ Linear
    /\ OrchestratorEnded => EndedDoneOrFailed

\* C6 amended: the git commands of one commit-and-push run are a prefix of
\* (stage, commit, push), each launched at most once and never after a later
\* one; a run whose subprocesses all ran and exited ends in done or in
\* failed(step) with step the last command launched, and a run in which a
\* subprocess could not be launched, or was ended by a signal, ends without
\* any outcome.
C6_LinearEndsDoneFailedOrThrown ==
    /\ Linear
    /\ OrchestratorEnded =>
         IF LastOrchestratorCall.exit.error \notin {"none", "exit"}
         THEN outcome = <<>>
         ELSE EndedDoneOrFailed

C6_Witness ==
    /\ pc = "done"
    /\ OrchestratorSteps = <<"stage", "commit", "push">>
    /\ outcome # <<>> /\ ~outcome[1].ok /\ outcome[1].step = "push"

StageArgv(files) == <<Arg("git"), Arg("add")>> \o files

\* C7: the staging command names exactly the caller's paths when a
\* non-empty path scope is given and is "git add -A" otherwise: for an
\* absent scope and for an empty path list alike.
C7_StageScope ==
    \A i \in CallsAt("stage") :
        /\ (tool = "commitAndPushAsync" /\ input.paths.given /\ input.paths.list # <<>>)
            => calls[i].argv = StageArgv(input.paths.list)
        /\ (tool = "commitAndPushAsync" /\ (~input.paths.given \/ input.paths.list = <<>>))
            => calls[i].argv = StageArgv(<<Arg("-A")>>)
        /\ tool = "start_work" => calls[i].argv = StageArgv(<<Arg("-A")>>)
        /\ tool = "apply_patch" => calls[i].argv = StageArgv(extractPatchPaths(input.patch))

C7_Witness ==
    /\ tool = "commitAndPushAsync"
    /\ input.paths = [given |-> TRUE, list |-> <<File("a.txt"), File("b.txt")>>]
    /\ \E i \in CallsAt("stage") :
        calls[i].argv = <<Arg("git"), Arg("add"), File("a.txt"), File("b.txt")>>

\* C8: in createAndPushBranchAsync, when the checkout exits non-zero the
\* upstream push is never launched and the operation returns the checkout's
\* CommandResult unchanged.
C8_CreateFailureSkipsPush ==
    \A i \in CallsAt("create-branch") :
        ExitedNonZero(calls[i])
        => /\ ~Invoked("push-branch")
           /\ pc # "sw_pushbranch"
           /\ res.createBranchResult = <<ResultOf(calls[i].exit)>>

C8_Witness ==
    /\ pc = "done"
    /\ \E i \in CallsAt("create-branch") :
        /\ calls[i].exit.code = 128
        /\ calls[i].exit.stderr = WarnText
        /\ res.createBranchResult = <<ResultOf(calls[i].exit)>>
    /\ ~Invoked("push-branch")

StartWorkOrder ==
    <<"set-url", "pull", "create-branch", "push-branch", "install",
      "stage", "commit", "push">>

StepLabel(step) ==
    CASE step = "set-url" -> "Error setting git remote URL."
      [] step = "pull" -> "Error pulling changes."
      [] step \in {"create-branch", "push-branch"} -> "Error creating/pushing branch."
      [] step = "install" -> "Error installing dependencies."

ReportsStep(c) ==
    /\ response # <<>>
    /\ response[1].isError
    /\ response[1].text =
         IF c.step \in {"stage", "commit", "push"}
         THEN <<Lit("Error"), Lit(c.step), Lit("start_work changes."),
                [kind |-> "failure", exitCode |-> c.exit.code,
                 output |-> formatCommandOutput(ResultOf(c.exit))]>>
         ELSE <<Lit(StepLabel(c.step)),
                [kind |-> "failure", exitCode |-> c.exit.code,
                 output |-> formatCommandOutput(ResultOf(c.exit))]>>

BenignNoOp(c) == c.step = "commit" /\ HasSignature(c.exit)

\* C9: start_work launches its commands in the order set-url, pull,
\* create-and-push-branch, install, commit-and-push; a step that exits
\* non-zero is the last one launched, and unless it is a commit with nothing
\* to commit the response is an error that reports that step; after a failed
\* create-and-push-branch neither the install nor any commit step is
\* launched.
C9_StartWorkAbortsAtFirstFailure ==
    tool = "start_work" =>
        /\ IsPrefix(StepsOf(calls), StartWorkOrder)
        /\ \A i \in 1..Len(calls) :
            ExitedNonZero(calls[i])
            => /\ i = Len(calls)
               /\ pc = "done"
               /\ ~BenignNoOp(calls[i]) => ReportsStep(calls[i])
               /\ calls[i].step \in {"create-branch", "push-branch"}
                    => /\ ~Invoked("install")
                       /\ ~Invoked("stage")
                       /\ ~Invoked("commit")
                       /\ ~Invoked("push")

C9_Witness ==
    /\ tool = "start_work"
    /\ pc = "done"
    /\ StepsOf(calls) = <<"set-url", "pull", "create-branch", "push-branch">>
    /\ ExitedNonZero(calls[4])
    /\ response # <<>> /\ response[1].isError
    /\ response[1].text[1] = Lit("Error creating/pushing branch.")

\* a path that, resolved against the workspace root, lies outside of it
Outside(p) ==
    ~IsPrefix(<< <<"workspace">> >>,
              SplitOn({Sep}, Tail(pathResolve(WorkspaceRoot, p))))

OutsidePaths(patch) ==
    {q \in Range(extractPatchPaths(patch)) : Outside(q)}

\* C10: apply_patch rejects a patch that has an extracted path outside the
\* workspace root with an error naming such a path, and in that invocation
\* no scratch directory is created and no command is launched.
C10_EscapingPatchRejected ==
    (tool = "apply_patch" /\ OutsidePaths(input.patch) # {})
    => /\ pc = "done"
       /\ response # <<>>
       /\ response[1].isError
       /\ \E q \in OutsidePaths(input.patch) :
            response[1].text[2] = [kind |-> "path", path |-> q]
       /\ tempDir = "absent"
       /\ calls = <<>>

C10_Witness ==
    /\ tool = "apply_patch"
    /\ input.patch = MixedPatch
    /\ input.dryRun = FALSE
    /\ response # <<>> /\ response[1].isError
    /\ response[1].text[2].path = <<Sep, "workspace", "2", Sep, "y">>
    /\ tempDir = "absent"
    /\ calls = <<>>

(***************************************************************************)
(* apply_patch                                                             *)
(***************************************************************************)
NoPathsResponse == errorResponse(<<Lit("Patch does not include any file paths.")>>)

\* C11: when no path can be extracted from the patch, apply_patch has
\* ended with the "Patch does not include any file paths." error and has
\* neither created the scratch directory nor launched any command.
C11_NoPathsFailsFirst ==
    (tool = "apply_patch" /\ extractPatchPaths(input.patch) = <<>>) =>
        /\ pc = "done"
        /\ response = <<NoPathsResponse>>
        /\ thrown = <<>>
        /\ tempDir = "absent"
        /\ calls = <<>>
        /\ worktree = <<>>

C11_Witness ==
    /\ tool = "apply_patch"
    /\ input.patch = DevNullPatch
    /\ response = <<NoPathsResponse>>
    /\ tempDir = "absent"

CheckFailedResponse(proc) ==
    errorResponse(<<Lit("Patch check failed (context not found or file missing)."),
                    formatCommandFailure(ResultOf(proc))>>)

DryRunResponse ==
    textResponse(<<Lit("Patch check succeeded (dry run)."),
                   Paths(extractPatchPaths(input.patch))>>)

ApplyFailedResponse(proc) ==
    errorResponse(<<Lit("Patch apply failed (partial apply possible)."),
                    formatCommandFailure(ResultOf(proc))>>)

BeginsHeader(text) ==
    Len(text) >= 2 /\ text[1] \in {"---", "+++"} /\ text[2] = " "

\* the text after the four header characters, up to the first whitespace
FirstToken(text) ==
    LET rest == SubSeq(text, 3, Len(text))
        n == CHOOSE k \in 0..Len(rest) :
                 /\ \A i \in 1..k : rest[i] \notin Whitespace
                 /\ k = Len(rest) \/ rest[k + 1] \in Whitespace
    IN  SubSeq(rest, 1, n)

StripOnce(token) ==
    IF Len(token) >= 2 /\ token[1] \in {"a", "b"} /\ token[2] = Sep
    THEN SubSeq(token, 3, Len(token))
    ELSE token

ExpectedPaths(patch) ==
    {StripOnce(FirstToken(patch[i].text)) :
        i \in {j \in 1..Len(patch) :
                  /\ BeginsHeader(patch[j].text)
                  /\ FirstToken(patch[j].text) \notin {<<>>, DevNull}}} \ {<<>>}

FooPatch ==
    <<Header(<<"---", " ", "a", Sep, "foo.txt">>),
      Header(<<"+++", " ", "b", Sep, "foo.txt">>)>>

RootSegments == << <<"workspace">> >>

\* the directory walk a name describes: "." and empty segments stay, ".."
\* goes one up (the file-system root is its own parent)
RECURSIVE Walk(_, _)
Walk(segs, at) ==
    IF segs = <<>> THEN at
    ELSE IF Head(segs) \in {<<>>, <<".">>} THEN Walk(Tail(segs), at)
         ELSE IF Head(segs) = <<"..">>
              THEN Walk(Tail(segs), SubSeq(at, 1, Len(at) - 1))
              ELSE Walk(Tail(segs), Append(at, Head(segs)))

\* a name that begins with the separator is absolute
BeginsAtTop == input.absolute \/ (Len(input.segs) > 1 /\ input.segs[1] = <<>>)

\* where the name of the current call leads, as a list of whole segments
Location == Walk(input.segs, IF BeginsAtTop THEN <<>> ELSE RootSegments)

AtRoot == Location = RootSegments

InsideRoot == Len(Location) > Len(RootSegments) /\ IsPrefix(RootSegments, Location)

RECURSIVE Absolute(_)
Absolute(segs) ==
    IF segs = <<>> THEN <<>> ELSE <<Sep>> \o Head(segs) \o Absolute(Tail(segs))

InvalidName == [ok |-> FALSE, message |-> "Invalid file name."]

Resolved == tool = "resolvePath" /\ pc = "returned"

\* C17 as stated: resolvePath succeeds exactly when the resolved path is
\* the workspace root itself or lies inside it by whole segments, and fails
\* with the invalid-name error otherwise.
C17_RootOrInsideSucceeds ==
    Resolved =>
        IF AtRoot \/ InsideRoot
        THEN returned[1] = [ok |-> TRUE, path |-> Absolute(Location)]
        ELSE returned[1] = InvalidName

\* C18: "." and ".." are resolved before the containment test: a name that
\* leads outside the workspace root fails with the invalid-name error, as
\* "../outside" does, and a name that leads to a place inside the root
\* succeeds with the normalized absolute path, as "sub/../sub/file.txt"
\* does with <root>/sub/file.txt.
C18_NormalizedBeforeContainment ==
    Resolved =>
        /\ (~AtRoot /\ ~InsideRoot) => returned[1] = InvalidName
        /\ InsideRoot => returned[1] = [ok |-> TRUE, path |-> Absolute(Location)]
        /\ (~input.absolute /\ input.segs = << <<"..">>, <<"outside">> >>) =>
              returned[1] = InvalidName
        /\ (~input.absolute
            /\ input.segs = << <<"sub">>, <<"..">>, <<"sub">>, <<"file.txt">> >>) =>
              returned[1] = [ok |-> TRUE,
                             path |-> WorkspaceRoot \o <<Sep, "sub", Sep, "file.txt">>]

C18_Witness ==
    /\ Resolved
    /\ ~input.absolute
    /\ input.segs = << <<"sub">>, <<"..">>, <<"sub">>, <<"file.txt">> >>
    /\ returned[1].ok
    /\ returned[1].path = <<Sep, "workspace", Sep, "sub", Sep, "file.txt">>

(***************************************************************************)
(* runCommandAsync                                                         *)
(***************************************************************************)
Ran == tool = "runCommandAsync" /\ pc = "returned"

RanAndExited(proc) == proc.error \in {"none", "exit"}

ResolvesWithExitCode ==
    RanAndExited(input.proc) =>
        returned[1] = [kind |-> "result", result |-> ResultOf(input.proc)]

\* C19 as stated: the runner resolves with a CommandResult carrying the
\* exit code whenever the process ran and exited, and rejects, without a
\* CommandResult, only when the process could not be launched.
C19_RejectsOnlyWhenNotLaunched ==
    Ran =>
        /\ ResolvesWithExitCode
        /\ returned[1].kind \in {"result", "error"}
        /\ returned[1].kind = "error" <=> input.proc.error \in LaunchErrors

\* C19 amended: the runner resolves with a CommandResult carrying the exit
\* code whenever the process ran and exited, for every exit code, and
\* rejects, without a CommandResult, exactly when the process could not be
\* launched or was ended by a signal before it exited.
C19_RejectsWithoutExitStatus ==
    Ran =>
        /\ ResolvesWithExitCode
        /\ returned[1].kind \in {"result", "error"}
        /\ returned[1].kind = "error" <=>
              input.proc.error \in LaunchErrors \cup KillSignals
        /\ returned[1].kind = "error" =>
              returned[1] = [kind |-> "error", message |-> input.proc.error]

C19_Witness ==
    /\ Ran
    /\ input.proc.error = "exit"
    /\ input.proc.code = 128
    /\ returned[1].kind = "result"
    /\ returned[1].result.exitCode = 128

(***************************************************************************)
(* Tool responses                                                          *)
(***************************************************************************)
Tools == {"start_work", "apply_patch"}

\* C20 as stated: every tool invocation ends with a response, a success
\* payload or an error payload, and never with an exception; a step that
\* threw (a program that could not be started, a file-system error) shows
\* as an error payload.
C20_EveryInvocationResponds ==
    (tool \in Tools /\ pc = "done") =>
        /\ thrown = <<>>
        /\ response # <<>>

(***************************************************************************)
(* Exit-status routing                                                     *)
(***************************************************************************)
FailureBlocks(r) == {b \in Range(r.text) : b.kind = "failure"}

\* the result of process proc went through failure formatting into an error
\* response (for commitAndPushAsync on its own: into a failed outcome)
RoutedToFailure(proc) ==
    IF tool = "commitAndPushAsync"
    THEN outcome # <<>> /\ ~outcome[1].ok /\ outcome[1].result = ResultOf(proc)
    ELSE /\ response # <<>>
         /\ response[1].isError
         /\ formatCommandFailure(ResultOf(proc)) \in FailureBlocks(response[1])

NoFailureOfExitZero ==
    /\ response # <<>> => \A b \in FailureBlocks(response[1]) : b.exitCode # 0
    /\ (outcome # <<>> /\ ~outcome[1].ok) => outcome[1].result.exitCode # 0

\* a commit that only found nothing to commit, and a search without matches
NotAFailure(c) ==
    \/ c.step = "commit" /\ HasSignature(c.exit)
    \/ c.step = "search" /\ c.exit.code = 1

\* C21 as stated: no result with exit status 0 is given to failure
\* formatting, and every result with a non-zero exit status is routed
\* through failure formatting into an error response.
C21_EveryNonZeroIsAFailure ==
    /\ NoFailureOfExitZero
    /\ \A i \in 1..Len(calls) :
          ExitedNonZero(calls[i]) => RoutedToFailure(calls[i].exit)

\* C21 amended: no result with exit status 0 is given to failure
\* formatting, and every result with a non-zero exit status is routed
\* through failure formatting into an error response, except the commit
\* whose output carries the nothing-to-commit signature and the content
\* search that exits 1, which are reported as successes.
C21_NonZeroIsAFailureButNoOpAndNoMatch ==
    /\ NoFailureOfExitZero
    /\ \A i \in 1..Len(calls) :
          ExitedNonZero(calls[i]) =>
              IF NotAFailure(calls[i])
              THEN /\ ~RoutedToFailure(calls[i].exit)
                   /\ response # <<>> => ~response[1].isError
              ELSE RoutedToFailure(calls[i].exit)

C21_Witness ==
    /\ tool = "vcs_status"
    /\ pc = "done"
    /\ Len(calls) = 1
    /\ ExitedNonZero(calls[1])
    /\ response = <<errorResponse(<<Lit("Error getting repository status."),
                                    formatCommandFailure(ResultOf(calls[1].exit))>>)>>

(***************************************************************************)
(* File tools and package-manager tools                                    *)
(***************************************************************************)
Done(t) == [by |-> t, whole |-> TRUE]

\* C22: a file tool launches git commands only after its file-system
\* operation succeeded; then it runs commitAndPushAsync once (the commands
\* are a prefix of stage, commit, push, and the stage is launched by the
\* time the tool ends), staging exactly the affected path: the name, and
\* the new name for copy_folder.  When the file-system operation fails, or
\* is not reached, no git command is launched.
C22_FileToolThenCommitOnce ==
    tool \in FileTools =>
        /\ calls # <<>> => worktree = <<Done(tool)>>
        /\ IsPrefix(StepsOf(calls), <<"stage", "commit", "push">>)
        /\ \A i \in CallsAt("stage") :
              calls[i].argv =
                  StageArgv(<<IF tool = "copy_folder" THEN input.newName
                              ELSE input.name>>)
        /\ (pc = "done" /\ worktree = <<Done(tool)>>) => Invoked("stage")

C22_Witness ==
    /\ tool = "copy_folder"
    /\ pc = "done"
    /\ worktree = <<Done("copy_folder")>>
    /\ StepsOf(calls) = <<"stage", "commit", "push">>
    /\ calls[1].argv = StageArgv(<<OtherInsideName>>)
    /\ outcome # <<>> /\ outcome[1].ok

\* C23: a package-manager tool launches npm first, and launches git
\* commands (a prefix of stage, commit, push) only after npm exited 0, in
\* which case the stage is launched by the time the tool ends.  When npm
\* exits non-zero or cannot be started it is the only command of the
\* invocation and the response is an error.
C23_NpmThenCommit ==
    (tool \in NpmTools /\ calls # <<>>) =>
        /\ calls[1].step = "npm"
        /\ IsPrefix(StepsOf(Tail(calls)), <<"stage", "commit", "push">>)
        /\ IF ExitedZero(calls[1])
           THEN pc = "done" => Invoked("stage")
           ELSE /\ Len(calls) = 1
                /\ pc = "done"
                /\ response # <<>> /\ response[1].isError
                /\ ExitedNonZero(calls[1]) =>
                      response[1].text =
                          <<Lit(npmFailure(tool)),
                            formatCommandFailure(ResultOf(calls[1].exit))>>

C23_Witness ==
    /\ tool = "run_build"
    /\ pc = "done"
    /\ Len(calls) = 1
    /\ calls[1].argv = <<Arg("npm"), Arg("run"), <<"build">>>>
    /\ ExitedNonZero(calls[1])
    /\ response # <<>> /\ response[1].isError

(***************************************************************************)
(* Validation                                                              *)
(***************************************************************************)
NamesOf(t, in) ==
    CASE t = "copy_folder" -> {in.name, in.newName}
      [] t = "search_content" -> IF in.path = <<>> THEN {} ELSE {in.path}
      [] OTHER -> {in.name}

\* the invocation under way was given an input that does not pass validation
NameOutside ==
    /\ tool \in FileTools \cup {"read_file", "search_content"}
    /\ \E n \in NamesOf(tool, input) : Outside(n)

ConfigurationMissing == tool = "start_work" /\ envMissing(input.env)

DirectoryInvalid ==
    tool \in NpmTools /\ input.currentWorkingDirectory \notin ValidDirectories

NoValidPaths ==
    /\ tool = "apply_patch"
    /\ \/ extractPatchPaths(input.patch) = <<>>
       \/ OutsidePaths(input.patch) # {}

Untouched == calls = <<>> /\ worktree = <<>> /\ tempDir = "absent"

ErrorResponse == response # <<>> /\ response[1].isError /\ thrown = <<>>

\* C24: an invocation whose input fails validation (a file-tool name that
\* resolves outside the workspace, start_work without repository location
\* or access token, a package-manager tool with an invalid working
\* directory, a patch without paths or with a path outside the workspace)
\* launches no subprocess and changes no file, and ends with an error
\* response.
C24_ValidationFailsFirst ==
    /\ (NameOutside \/ ConfigurationMissing \/ NoValidPaths) =>
          pc = "done" /\ Untouched /\ ErrorResponse
    /\ DirectoryInvalid =>
          /\ Untouched
          /\ pc \in {"npm_run", "done"}
          /\ pc = "done" =>
                response = <<errorResponse(<<Lit(catchLabel(tool)),
                                             Lit("Invalid currentWorkingDirectory")>>)>>

C24_Witness ==
    /\ tool = "copy_folder"
    /\ input.name = InsideName
    /\ input.newName = EscapingName
    /\ pc = "done"
    /\ Untouched
    /\ response = <<errorResponse(<<Lit("Error copying folder:"),
                                    Lit("Invalid file name.")>>)>>

(***************************************************************************)
(* The skipped commit                                                      *)
(***************************************************************************)
Skipped == outcome # <<>> /\ outcome[1].ok /\ outcome[1].skipped

\* C25 as stated: whenever commitAndPushAsync classified the commit as a
\* benign no-op, the tool that called it answers with a success whose
\* message includes the no-op note, for every calling tool.
C25_NoOpReportedWithNote ==
    (tool \in FileTools \cup NpmTools \cup {"apply_patch", "start_work"} /\ Skipped) =>
        /\ response # <<>>
        /\ ~response[1].isError
        /\ Lit(outcome[1].skipReason) \in Range(response[1].text)

Formatted == tool = "formatStream" /\ pc = "returned"

\* C26: a stream of n lines formatted with a limit of maxLines: when
\* n > maxLines the block states that n - maxLines leading lines were trimmed
\* and holds exactly the last maxLines lines in their order (301 lines under
\* the limit 300 give "trimmed 1 lines" and the last 300 lines); when
\* n <= maxLines no line is dropped.
C26_TruncationKeepsTail ==
    Formatted =>
        LET n == input.n
            maxLines == input.maxLines
            text == Stream(n)
            out == returned[1]
        IN  /\ n = 0 => out = <<>>
            /\ n > 0 => Len(out) = 1
            /\ (n > 0 /\ n <= maxLines) =>
                    /\ out[1].trimmed = 0
                    /\ out[1].lines = text
            /\ n > maxLines =>
                    /\ out[1].trimmed = n - maxLines
                    /\ Len(out[1].lines) = maxLines
                    /\ \A i \in 1..maxLines :
                           out[1].lines[i] = text[n - maxLines + i]

C26_Witness ==
    /\ Formatted
    /\ input.n = 301
    /\ input.maxLines = 300
    /\ returned[1][1].trimmed = 1
    /\ Len(returned[1][1].lines) = 300
    /\ returned[1][1].lines[1] = StreamLine(2)
    /\ returned[1][1].lines[300] = StreamLine(301)

\* C27: no mutual exclusion exists across invocations: whatever position the
\* other invocation of commitAndPushAsync is at, the step an invocation has
\* reached can complete, so the steps of the two interleave at every step
\* boundary.
C27_NoMutualExclusion ==
    \A i \in Invocations :
        /\ pc[i] = "cp_stage" => ENABLED StageOf(i)
        /\ pc[i] = "cp_commit" => ENABLED CommitOf(i)
        /\ pc[i] = "cp_push" => ENABLED PushOf(i)

\* B's commit step runs after A's stage step and before A's commit step
C27_Witness ==
    \E a, b, c \in 1..Len(calls) :
        /\ a < b /\ b < c
        /\ calls[a].by = "A" /\ calls[a].step = "stage"
        /\ calls[b].by = "B" /\ calls[b].step = "commit"
        /\ calls[c].by = "A" /\ calls[c].step = "commit"

Sequenced == {"commitAndPushAsync", "start_work", "apply_patch"}

\* the step whose subprocess an invocation at this position awaits
StepAt ==
    [p \in {"cp_stage", "cp_commit", "cp_push", "sw_seturl", "sw_pull", "sw_create",
            "sw_pushbranch", "sw_install", "ap_check", "ap_apply"} |->
        CASE p = "cp_stage" -> "stage"
          [] p = "cp_commit" -> "commit"
          [] p = "cp_push" -> "push"
          [] p = "sw_seturl" -> "set-url"
          [] p = "sw_pull" -> "pull"
          [] p = "sw_create" -> "create-branch"
          [] p = "sw_pushbranch" -> "push-branch"
          [] p = "sw_install" -> "install"
          [] p = "ap_check" -> "check"
          [] p = "ap_apply" -> "apply"]

\* the install step launches nothing when the working directory is refused
RefusedBeforeLaunch ==
    /\ pc = "sw_install"
    /\ ~resolveWorkingDirectory(input.currentWorkingDirectory).ok

InFlight == pc \in DOMAIN StepAt /\ ~RefusedBeforeLaunch

\* the subprocesses launched so far by the invocation
Launched == Len(calls) + (IF InFlight THEN 1 ELSE 0)

LaunchBound ==
    CASE tool = "commitAndPushAsync" -> 3
      [] tool = "start_work" -> 8
      [] tool = "apply_patch" -> 5

Responded == IF tool = "commitAndPushAsync" THEN outcome # <<>> ELSE response # <<>>

\* the position is left only by the exit of the subprocess in flight
LeftByExit ==
    (InFlight /\ pc' # pc) =>
        /\ Len(calls') = Len(calls) + 1
        /\ calls'[Len(calls')].step = StepAt[pc]
        /\ SubSeq(calls', 1, Len(calls)) = calls

Over == {"done", "ap_finally", "idle"}

\* C29: nothing is retried and every step-level failure aborts the rest: in
\* one invocation each logical step's subprocess is launched at most once,
\* and once a subprocess of the invocation has exited non-zero the invocation
\* launches no further subprocess.
C29_NoRetryAndAbortOnFailure ==
    /\ \A a, b \in 1..Len(calls) : a # b => calls[a].step # calls[b].step
    /\ \A a \in 1..Len(calls) :
          ExitedNonZero(calls[a]) => (a = Len(calls) /\ pc \in Over)

\* start_work ended after its pull exited non-zero: two subprocesses ran
C29_Witness ==
    /\ tool = "start_work"
    /\ pc = "done"
    /\ Len(calls) = 2
    /\ calls[2].step = "pull"
    /\ ExitedNonZero(calls[2])

IsFileHeader(line) == line.kind = "header"

\* the file header lines of a patch
FileHeaders(patch) == SelectSeq(patch, IsFileHeader)

\* C30: the patch path set contains only paths taken from the diff's file
\* header lines: a line of a hunk body, such as a removed or added line whose
\* text begins with "--- " or "+++ ", adds no member to the set and cannot
\* cause the patch to be rejected.
C30_OnlyFileHeadersCount ==
    (tool = "extractPatchPaths" /\ pc = "returned") =>
        /\ Range(returned[1]) \subseteq ExpectedPaths(FileHeaders(input.patch))
        /\ validatePatchPaths(extractPatchPaths(FileHeaders(input.patch))) = <<>>
               => validatePatchPaths(returned[1]) = <<>>

\* the results of the subprocesses of a step, as the log of calls has them
Exited(step) ==
    {ResultOf(calls[i].exit) :
        i \in {j \in 1..Len(calls) :
                  calls[j].step = step /\ calls[j].exit.error \in {"none", "exit"}}}

\* C31: createAndPushBranchAsync propagates the first failing step's result
\* unchanged: a failed creation gives the creation's result and no push; a
\* creation that exits 0 followed by a push that exits non-zero gives exactly
\* the push's CommandResult; only when both exit 0 is the result exit status
\* 0 with, for each stream, the creation's output followed by the push's.
C31_FirstFailurePropagated ==
    (tool = "start_work" /\ res.createBranchResult # <<>>) =>
        LET r == res.createBranchResult[1] IN
        \E c \in Exited("create-branch") :
            /\ c.exitCode # 0 => (r = c /\ Exited("push-branch") = {})
            /\ c.exitCode = 0 =>
                 \E p \in Exited("push-branch") :
                    /\ p.exitCode # 0 => r = p
                    /\ p.exitCode = 0 =>
                         /\ r.exitCode = 0
                         /\ r.stdout = Concat(c.stdout, p.stdout)
                         /\ r.stderr = Concat(c.stderr, p.stderr)

\* the creation exited 0 with output, the push exited non-zero
C31_Witness ==
    /\ tool = "start_work"
    /\ res.createBranchResult # <<>>
    /\ \E c \in Exited("create-branch"), p \in Exited("push-branch") :
        /\ c.exitCode = 0 /\ c.stdout # NoText
        /\ p.exitCode # 0
        /\ res.createBranchResult[1] = p

\* C32: every CommitOutcome is well-formed: a failure names one of the steps
\* stage, commit, push and carries the CommandResult of that step, whose exit
\* status is non-zero; a success carries a no-op reason exactly when it is a
\* no-op, and holds at most 2 output blocks when it is a no-op and at most 3
\* otherwise.
C32_OutcomeWellFormed ==
    outcome # <<>> =>
        LET o == outcome[1] IN
        IF o.ok
        THEN /\ ("skipReason" \in DOMAIN o) <=> o.skipped
             /\ Len(o.outputs) <= (IF o.skipped THEN 2 ELSE 3)
        ELSE /\ o.step \in {"stage", "commit", "push"}
             /\ Exited(o.step) = {o.result}
             /\ o.result.exitCode # 0

\* a no-op success with the two blocks of the staging and the commit step
C32_Witness ==
    /\ outcome # <<>>
    /\ outcome[1].ok
    /\ outcome[1].skipped
    /\ Len(outcome[1].outputs) = 2

\* a commit step that exited non-zero with the text of a clean tree
NothingCommitted(c) ==
    c.step = "commit" /\ ExitedNonZero(c) /\ HasSignature(c.exit)

\* the call that the step just taken added to the log
Latest == calls'[Len(calls')]

\* C33: once an invocation has failed at the push step its commit is local
\* only; a following invocation that finds nothing to commit ends in success
\* with the no-op mark and without a push, and leaves the repository as it
\* was, so that the earlier commit stays unpushed under a successful outcome.
C33_NoOpLeavesCommitUnpushed ==
    /\ [](\A i \in 1..Len(calls) :
            NothingCommitted(calls[i]) =>
                /\ i = Len(calls)
                /\ outcome # <<>>
                /\ outcome[1].ok
                /\ outcome[1].skipped)
    /\ [][(Len(calls') = Len(calls) + 1 /\ NothingCommitted(Latest))
             => repository' = repository]_vars

\* the second invocation is a no-op success while a commit is unpushed
C33_Witness ==
    /\ tool = "commitAndPushAsync"
    /\ invocations = 2
    /\ repository.unpushed = 1
    /\ outcome # <<>>
    /\ outcome[1].ok
    /\ outcome[1].skipped
    /\ StepsOf(calls) = <<"stage", "commit">>

\* C34: the clean-tree text is looked for only when the commit exits
\* non-zero: a commit that exits 0 is always followed by the push, and the
\* outcome, when it is a success, is not marked as a no-op, even if the
\* commit's output holds "nothing to commit".
C34_ExitZeroCommitPushes ==
    \A i \in 1..Len(calls) :
        (calls[i].step = "commit" /\ ExitedZero(calls[i])) =>
            /\ IF i = Len(calls) THEN pc = "cp_push" ELSE calls[i + 1].step = "push"
            /\ (outcome # <<>> /\ outcome[1].ok) => ~outcome[1].skipped

\* a commit that exited 0 with the clean-tree text, pushed, success
C34_Witness ==
    /\ outcome # <<>>
    /\ outcome[1].ok
    /\ ~outcome[1].skipped
    /\ \E i \in 1..Len(calls) :
        /\ calls[i].step = "commit"
        /\ ExitedZero(calls[i])
        /\ HasSignature(calls[i].exit)
        /\ i < Len(calls)
        /\ calls[i + 1].step = "push"

NotLaunched(c) ==
    c.step \in {"stage", "commit", "push"} /\ c.exit.error \in LaunchErrors

\* C35: when a subprocess of commitAndPushAsync cannot be launched there is
\* no CommitOutcome: the error leaves commitAndPushAsync, no later step of
\* the sequence is launched, and a tool handler that called it answers with
\* an error response carrying the error's message.
C35_LaunchFailurePropagates ==
    \A i \in 1..Len(calls) :
        NotLaunched(calls[i]) =>
            /\ i = Len(calls)
            /\ outcome = <<>>
            /\ pc \in Over
            /\ IF tool = "commitAndPushAsync"
               THEN thrown = <<calls[i].exit.error>>
               ELSE /\ thrown = <<>>
                    /\ response # <<>>
                    /\ response[1].isError
                    /\ Lit(calls[i].exit.error) \in Range(response[1].text)

\* write_file wrote the file and git could not be started for the commit
C35_Witness ==
    /\ tool = "write_file"
    /\ pc = "done"
    /\ StepsOf(calls) = <<"stage", "commit">>
    /\ NotLaunched(calls[2])
    /\ response # <<>>
    /\ response[1].isError

\* the change a mutating tool makes to the workspace before it commits
Mutation == [by |-> IF tool = "apply_patch" THEN "apply" ELSE tool, whole |-> TRUE]

\* C36: an error response of a mutating tool does not mean an unchanged
\* workspace: when write_file, delete_file, delete_folder, copy_folder or
\* apply_patch has made its change and commitAndPushAsync then fails at
\* stage, commit or push, the tool answers with an error, the failing step is
\* the last thing it ran, and the change is still in place.
C36_FailedCommitLeavesMutation ==
    (/\ tool \in {"write_file", "delete_file", "delete_folder", "copy_folder",
                  "apply_patch"}
     /\ pc = "done"
     /\ outcome # <<>>
     /\ ~outcome[1].ok) =>
        /\ response # <<>>
        /\ response[1].isError
        /\ worktree = <<Mutation>>
        /\ calls[Len(calls)].step = outcome[1].step

\* write_file wrote the file, the push failed
C36_Witness ==
    /\ tool = "write_file"
    /\ pc = "done"
    /\ outcome # <<>>
    /\ ~outcome[1].ok
    /\ outcome[1].step = "push"
    /\ response[1].isError
    /\ worktree = <<[by |-> "write_file", whole |-> TRUE]>>

StartWorkSteps ==
    <<"set-url", "pull", "create-branch", "push-branch", "install", "stage", "commit",
      "push">>

\* start_work ended in an error after its branch step had succeeded
FailedAfterBranch ==
    /\ tool = "start_work"
    /\ pc = "done"
    /\ response # <<>>
    /\ response[1].isError
    /\ res.createBranchResult # <<>>
    /\ res.createBranchResult[1].exitCode = 0

\* C37: start_work undoes nothing and cannot be run again after a partial
\* run: when the install or the commit-and-push step fails, the branch that
\* was created and pushed is still there and nothing was run after the
\* failing step; and, a checkout -b of an existing branch not exiting 0, a
\* start_work for a branch that exists ends with an error at the branch step,
\* before the install.
C37_NoCompensationNoRerun ==
    /\ [](FailedAfterBranch =>
            /\ input.branch \in repository.branches
            /\ IsPrefix(StepsOf(calls), StartWorkSteps))
    /\ [][(/\ tool = "start_work"
           /\ pc = "sw_create"
           /\ input.branch \in repository.branches
           /\ pc' # pc) =>
              /\ pc' = "done"
              /\ Latest.step = "create-branch"
              /\ response' # <<>>
              /\ response'[1].isError]_vars

\* the second start_work for the branch failed at the checkout
C37_Witness ==
    /\ tool = "start_work"
    /\ invocations = 2
    /\ pc = "done"
    /\ input.branch \in repository.branches
    /\ StepsOf(calls) = <<"set-url", "pull", "create-branch">>
    /\ ExitedNonZero(calls[3])
    /\ response[1].isError

\* the arguments of a git apply call between the subcommand, with --check
\* when it is the check, and the patch file
FlagsOf(c) ==
    SubSeq(c.argv, (IF c.step = "check" THEN 4 ELSE 3), Len(c.argv) - 1)

RequestedFlags ==
    (IF input.reverse THEN <<Arg("--reverse")>> ELSE <<>>)
    \o (IF input.fuzz # <<>> THEN <<Arg("-C"), input.fuzz>> ELSE <<>>)

\* C38: in apply_patch the real apply is run with exactly the flags of the
\* check before it: --reverse is in both if and only if reverse was asked
\* for, -C with the fuzz value is in both if and only if a fuzz value was
\* given, the value 0 included, and both read the same scratch patch file.
C38_ApplyRepeatsCheckFlags ==
    (tool = "apply_patch" /\ Len(calls) >= 1) =>
        /\ calls[1].step = "check"
        /\ SubSeq(calls[1].argv, 1, 3) = <<Arg("git"), Arg("apply"), Arg("--check")>>
        /\ FlagsOf(calls[1]) = RequestedFlags
        /\ calls[1].argv[Len(calls[1].argv)] = patchFilePath
        /\ Len(calls) >= 2 =>
             /\ calls[2].step = "apply"
             /\ SubSeq(calls[2].argv, 1, 2) = <<Arg("git"), Arg("apply")>>
             /\ FlagsOf(calls[2]) = FlagsOf(calls[1])
             /\ calls[2].argv[Len(calls[2].argv)] = calls[1].argv[Len(calls[1].argv)]

\* check and apply both ran with -C 0 and without --reverse
C38_Witness ==
    /\ tool = "apply_patch"
    /\ Len(calls) >= 2
    /\ input.fuzz = <<"0">>
    /\ ~input.reverse
    /\ FlagsOf(calls[1]) = <<Arg("-C"), <<"0">>>>
    /\ FlagsOf(calls[2]) = <<Arg("-C"), <<"0">>>>

=============================================================================
